---- MODULE Spec2Model ----
(***************************************************************************)
(* Verification model of the matchup statistics pipeline:                  *)
(*   - MissingPairBackfillService (demand backfill queue)                  *)
(*   - DualWindowRateLimiter      (bulk job rate limiter)                  *)
(*   - RiotApiClient              (serialized request queue and cooldown)  *)
(*   - scrapeMatchups main        (resumable collection job, aggregator)   *)
(*   - MatchupStatsRepository / PostgresMatchupStatsRepository (store)     *)
(* Time is the integer reading of Date.now(); one unit of the model is one *)
(* scaled millisecond step.                                                *)
(***************************************************************************)
EXTENDS Integers, Sequences, FiniteSets, TLC

\* ------------------------------------------------------------------------
\* Bounds of the model
\* ------------------------------------------------------------------------
MaxTime == 3
MaxCooldown == 2
MaxQueueSizeBound == 2
MaxAccepted == 3
\* Matchup statistics store (chunkSize scaled down)
NumFlushers == 1
ChunkSize == 2
MaxNowMs == 2
\* Bulk crawl job (cache lifetime scaled down)
NumPlayers == 2
MaxCheckpointEvery == 2
MaxRuns == 2
StatsCacheTtlMs == 2
\* precompute worker pool: the largest concurrency option tried
MaxConcurrency == 2
\* scheduler: a day of HoursPerDay hours of TicksPerHour clock steps each
HoursPerDay == 3
TicksPerHour == 2
MaxAdminRequests == 1
\* coaching route: the timeouts of its awaits (scaled down) and minSampleGames
LiveTimeoutMs == 2
ExternalTimeoutMs == 1
GeminiTimeoutMs == 1
MaxSampleGames == 2

NoKey == <<>>
NoSnapshot == [state |-> "absent"]

VARIABLES
  now,            \* Date.now()
  \* --- MissingPairBackfillService
  options,        \* constructor options: enabled, maxQueueSize, cooldownMs
  queue,          \* BackfillRequest[]
  queuedKeys,     \* Set<string>
  lastAttemptAt,  \* Map<string, number>; 0 stands for "no entry"
  snapshots,      \* Map<string, CollectionSnapshot>; NoSnapshot stands for "no entry"
  processing,
  currentKey,
  inFlight,       \* keys whose getMatchupStats call is awaited by a processLoop
  lastEnqueue,    \* history: the last enqueue call and what it returned
  attemptEndedAt, \* history: when the last attempt of a key ended (0: never)
  acceptedOrder,  \* history: keys in the order their enqueue was accepted
  startedOrder,   \* history: keys in the order the worker picked them up
  \* --- DualWindowRateLimiter
  oneSecondWindow,  \* number[]: grant times within the short window
  twoMinuteWindow,  \* number[]: grant times within the long window
  callers,          \* per caller of acquire(): where it stands in the loop
  grants,           \* history: the times at which acquire() returned
  \* --- RiotApiClient
  requestQueue,     \* the promise chain `queue`: calls whose task is chained, in order
  lastRequestAtMs,
  cooldownUntilMs,
  calls,            \* per caller of request(): position, attempt, wake time, last result
  fetchLog,         \* history: the fetches handed to the network
  \* --- MatchupStatsRepository / PostgresMatchupStatsRepository
  backend,          \* DB_PROVIDER: which repository the process has built
  table,            \* matchup_stats_cache as the connection reads it: a set of rows
  inTransaction,    \* whether the shared SQLite connection is inside BEGIN ... COMMIT
  rollbackImage,    \* the table a ROLLBACK of that transaction returns to
  flushers,         \* per caller of upsertMany(): position, rows, open chunk
  lastUpsert,       \* history: per key, the stats of the last completed upsert call
  lastCall,         \* history: the last store call and what it returned
  \* --- scrapeMatchups main
  jobPc,            \* where a run stands: stopped, match_ids, matches, flush
  jobExit,          \* how the last run ended: none, done, error, killed
  jobOptions,       \* parseArgs() of the current run
  runs,             \* runs started so far
  puuids,
  nextPlayerIndex,
  allMatchIds,
  uniqueMatchIds,
  nextMatchIndex,
  matchesProcessed,
  buckets,          \* Map<string, AggregationBucket>
  phase,
  checkpointFile,   \* the file at checkpointPath
  matchData,        \* the match and timeline the API answers for each match id
  resumedFrom,      \* history: the checkpoint the current run took over
  \* --- startNightlyPrecompute and POST /admin/precompute-cache
  nightlyOptions,   \* PRECOMPUTE_NIGHTLY_ENABLED and NightlyScheduleOptions.hourUtc
  timers,           \* pending setTimeout callbacks of scheduleNext: the delay left of each
  nightlyJobs,      \* precomputeAll calls of the timer callback in progress
  adminJobs,        \* precomputeAll calls of the admin route in progress
  lastNightly,      \* history: what the last nightly run logged (completed, failed)
  utcDay,           \* history: the nightly runs started since 00:00 UTC
  \* --- createMatchupRouter, POST /coach/matchup
  routerOptions,    \* enableLiveStats, the optional services, minSampleGames
  coachRequest,     \* one coaching request: where its handler stands, and its locals
  \* --- RiotMatchupStatsService
  statsService,     \* its cache Map, and (history) how its last call got its result
  \* --- runWithConcurrency over the match ids of precomputeAll
  pool              \* items, index, the workers, the buckets, and (history) the items handed out

backfillVars == <<options, queue, queuedKeys, lastAttemptAt, snapshots, processing,
                  currentKey, inFlight, lastEnqueue, attemptEndedAt, acceptedOrder, startedOrder>>

limiterVars == <<oneSecondWindow, twoMinuteWindow, callers, grants>>

clientVars == <<requestQueue, lastRequestAtMs, cooldownUntilMs, calls, fetchLog>>

storeVars == <<backend, table, inTransaction, rollbackImage, flushers, lastUpsert, lastCall>>

jobVars == <<jobPc, jobExit, jobOptions, runs, puuids, nextPlayerIndex, allMatchIds,
             uniqueMatchIds, nextMatchIndex, matchesProcessed, buckets, phase,
             checkpointFile, matchData, resumedFrom>>

schedVars == <<nightlyOptions, timers, nightlyJobs, adminJobs, lastNightly, utcDay>>

routeVars == <<routerOptions, coachRequest>>

serviceVars == <<statsService>>

poolVars == <<pool>>

vars == <<now, backfillVars, limiterVars, clientVars, storeVars, jobVars, schedVars, routeVars,
          serviceVars, poolVars>>

\* ------------------------------------------------------------------------
\* Clock
\* ------------------------------------------------------------------------
Tick(horizon) ==
  /\ now < horizon
  /\ now' = now + 1

\* ------------------------------------------------------------------------
\* MissingPairBackfillService
\* ------------------------------------------------------------------------
DefaultTargetGames == 10

\* An optional number is a sequence of length 0 (undefined) or 1.
Undefined == <<>>

\* The requests the route layer issues: three pairs, with and without an
\* explicit targetGames.
BackfillRequests ==
  { [patch |-> "15.3", lane |-> "top", playerChampion |-> "A", enemyChampion |-> "B",
     targetGames |-> Undefined],
    [patch |-> "15.3", lane |-> "top", playerChampion |-> "B", enemyChampion |-> "A",
     targetGames |-> <<1>>],
    [patch |-> "15.3", lane |-> "mid", playerChampion |-> "A", enemyChampion |-> "B",
     targetGames |-> <<0>>] }

\* `${patch}:${lane}:${playerChampion}:${enemyChampion}`
keyOf(input) == <<input.patch, input.lane, input.playerChampion, input.enemyChampion>>

BackfillKeys == { keyOf(r) : r \in BackfillRequests }

canAttempt(key) ==
  IF lastAttemptAt[key] = 0 THEN TRUE
  ELSE now - lastAttemptAt[key] >= options.cooldownMs

\* Math.max(1, Math.floor(input.targetGames ?? 10))
TargetGamesOf(input) ==
  IF input.targetGames = Undefined THEN DefaultTargetGames
  ELSE IF input.targetGames[1] < 1 THEN 1 ELSE input.targetGames[1]

AlreadyQueued_OnlyCurrent(key) == currentKey = key

\* `this.currentKey === key || this.queuedKeys.has(key)`
AlreadyQueued(key) == currentKey = key \/ key \in queuedKeys

\* The reason enqueue rejects with, or "accepted".
EnqueueOutcome_NoCapacity(input) ==
  LET key == keyOf(input) IN
  IF ~options.enabled THEN "disabled"
  ELSE IF ~canAttempt(key) THEN "cooldown"
  ELSE IF AlreadyQueued(key) THEN "already_queued"
  ELSE "accepted"

EnqueueOutcome(input) ==
  LET key == keyOf(input) IN
  IF ~options.enabled THEN "disabled"
  ELSE IF ~canAttempt(key) THEN "cooldown"
  ELSE IF AlreadyQueued(key) THEN "already_queued"
  ELSE IF Len(queue) >= options.maxQueueSize THEN "queue_full"
  ELSE "accepted"

LatestGamesOf(snaps, key) ==
  IF snaps[key] = NoSnapshot THEN 0 ELSE snaps[key].latestGames

Snapshot(input, latest, state) ==
  [key |-> keyOf(input), targetGames |-> TargetGamesOf(input), latestGames |-> latest,
   state |-> state]

\* The synchronous head of one iteration of processLoop's while loop: shift
\* the next request and mark it as processing, up to the await of the
\* collection.  q is the queue to take from, the other arguments the maps as
\* they stand when the iteration starts.
StartNext(q, qk, la, snaps, fl) ==
  LET next == Head(q)
      key == keyOf(next) IN
  /\ queue' = Tail(q)
  /\ inFlight' = fl \cup {key}
  /\ currentKey' = key
  /\ queuedKeys' = qk \ {key}
  /\ lastAttemptAt' = [la EXCEPT ![key] = now]
  /\ snapshots' = [snaps EXCEPT ![key] = Snapshot(next, LatestGamesOf(snaps, key), "processing")]
  /\ startedOrder' = Append(startedOrder, key)
  /\ processing' = TRUE

\* processLoop's entry guard, `if (this.processing) return`: the loop body is
\* entered only when no loop is running.
LoopEnters_NoGuard(isProcessing) == TRUE

LoopEnters(isProcessing) == ~isProcessing

NoEnqueue ==
  [key |-> NoKey, queued |-> FALSE, reason |-> "never"]

EarlyReturn_QueueFullFallsThrough(outcome) == outcome \notin {"accepted", "queue_full"}

\* Each of the four tests at the head of enqueue returns on the spot.
EarlyReturn(outcome) == outcome # "accepted"

\* enqueue(input), including the synchronous part of the processLoop() call
\* it makes.
Enqueue(input) ==
  LET key == keyOf(input)
      outcome == EnqueueOutcome(input) IN
  /\ outcome = "accepted" => Len(acceptedOrder) < MaxAccepted
  /\ lastEnqueue' = [key |-> key, queued |-> (outcome = "accepted"),
                     reason |-> IF outcome = "accepted" THEN "none" ELSE outcome]
  /\ IF EarlyReturn(outcome)
       THEN UNCHANGED <<queue, queuedKeys, lastAttemptAt, snapshots, processing, currentKey,
                        inFlight, acceptedOrder, startedOrder>>
       ELSE LET q1 == Append(queue, input)
                qk1 == queuedKeys \cup {key}
                s1 == [snapshots EXCEPT ![key] =
                         Snapshot(input, LatestGamesOf(snapshots, key), "queued")] IN
            /\ acceptedOrder' = Append(acceptedOrder, key)
            /\ IF LoopEnters(processing)
                 THEN StartNext(q1, qk1, lastAttemptAt, s1, inFlight)
                 ELSE /\ queue' = q1
                      /\ queuedKeys' = qk1
                      /\ snapshots' = s1
                      /\ UNCHANGED <<lastAttemptAt, processing, currentKey, inFlight,
                                     startedOrder>>
  /\ UNCHANGED <<now, options, attemptEndedAt>>

\* The games the collection reports (stats?.games ?? 0), or a failure.
CollectionResults ==
  { [ok |-> TRUE, games |-> g] : g \in {0, DefaultTargetGames} } \cup { [ok |-> FALSE, games |-> 0] }

\* `latestGames >= targetGames ? "complete" : "partial"`
SuccessState_Strict(latestGames, targetGames) ==
  IF latestGames > targetGames THEN "complete" ELSE "partial"

SuccessState(latestGames, targetGames) ==
  IF latestGames >= targetGames THEN "complete" ELSE "partial"

\* The snapshot processLoop writes when the await settles: the one of the try
\* block when the collection resolved, the one of the catch block when it
\* rejected.  prev is the "processing" snapshot of the attempt.
SettledSnapshot_LeavesProcessing(prev, result) ==
  IF ~result.ok
    THEN prev
    ELSE [prev EXCEPT !.latestGames = result.games,
                      !.state = SuccessState(result.games, prev.targetGames)]

SettledSnapshot(prev, result) ==
  IF ~result.ok
    THEN [prev EXCEPT !.state = "error"]
    ELSE [prev EXCEPT !.latestGames = result.games,
                      !.state = SuccessState(result.games, prev.targetGames)]

LoopCondition_LeavesLast(q) == Len(q) > 1

\* `while (this.queue.length > 0)`
LoopCondition(q) == Len(q) > 0

\* The await of getMatchupStats settles: record the terminal snapshot, clear
\* currentKey, and run the loop on: either take the next request or leave the
\* loop and clear the processing flag.
CollectionSettles(key, result) ==
  /\ key \in inFlight
  /\ LET s1 == [snapshots EXCEPT ![key] = SettledSnapshot(snapshots[key], result)] IN
     /\ attemptEndedAt' = [attemptEndedAt EXCEPT ![key] = now]
     /\ IF LoopCondition(queue)
          THEN StartNext(queue, queuedKeys, lastAttemptAt, s1, inFlight \ {key})
          ELSE /\ snapshots' = s1
               /\ currentKey' = NoKey
               /\ processing' = FALSE
               /\ inFlight' = inFlight \ {key}
               /\ UNCHANGED <<queue, queuedKeys, lastAttemptAt, startedOrder>>
  /\ UNCHANGED <<now, options, lastEnqueue, acceptedOrder>>

\* `this.snapshots.get(this.keyOf(input)) ?? null`; NoSnapshot stands for null.
getCollectionStatus_OnlySettled(key) ==
  IF snapshots[key].state \in {"complete", "partial", "error"} THEN snapshots[key]
  ELSE NoSnapshot

getCollectionStatus(key) == snapshots[key]

BackfillInit ==
  /\ options \in [enabled : BOOLEAN, maxQueueSize : 1..MaxQueueSizeBound,
                  cooldownMs : 1..MaxCooldown]
  /\ queue = <<>>
  /\ queuedKeys = {}
  /\ lastAttemptAt = [k \in BackfillKeys |-> 0]
  /\ snapshots = [k \in BackfillKeys |-> NoSnapshot]
  /\ processing = FALSE
  /\ currentKey = NoKey
  /\ inFlight = {}
  /\ lastEnqueue = NoEnqueue
  /\ attemptEndedAt = [k \in BackfillKeys |-> 0]
  /\ acceptedOrder = <<>>
  /\ startedOrder = <<>>


\* ------------------------------------------------------------------------
\* DualWindowRateLimiter (scrapeMatchups)
\* The limiter of the script is DualWindowRateLimiter(20, 1000, 100, 120000);
\* the model keeps the algorithm and scales the four parameters and the
\* 20 ms floor of the sleep down.
\* ------------------------------------------------------------------------
OneSecondLimit == 2
OneSecondMs == 2
TwoMinuteLimit == 3
TwoMinuteMs == 4
MinSleepMs == 1
NumCallers == 3
LimiterMaxTime == 6

Callers == 1..NumCallers

Min(a, b) == IF a <= b THEN a ELSE b
Max(a, b) == IF a >= b THEN a ELSE b

\* One while loop of prune: drop the leading entries that left the window.
RECURSIVE PruneWindow(_, _, _)
PruneWindow(window, t, windowMs) ==
  IF Len(window) > 0 /\ t - window[1] >= windowMs
    THEN PruneWindow(Tail(window), t, windowMs)
    ELSE window

\* `this.oneSecondWindow.length < this.oneSecondLimit`
WindowOk_OffByOne(window, limit) == Len(window) <= limit

WindowOk(window, limit) == Len(window) < limit

\* One iteration of the while (true) loop of acquire(), run by caller c.
AcquireIteration(c) ==
  LET w1 == PruneWindow(oneSecondWindow, now, OneSecondMs)
      w2 == PruneWindow(twoMinuteWindow, now, TwoMinuteMs)
      oneSecondOk == WindowOk(w1, OneSecondLimit)
      twoMinuteOk == WindowOk(w2, TwoMinuteLimit) IN
  IF oneSecondOk /\ twoMinuteOk
    THEN /\ oneSecondWindow' = Append(w1, now)
         /\ twoMinuteWindow' = Append(w2, now)
         /\ grants' = Append(grants, now)
         /\ callers' = [callers EXCEPT ![c] = [pc |-> "idle", wakeAt |-> 0]]
    ELSE LET waitOneSecond == OneSecondMs - (now - w1[1])
             waitTwoMinute == TwoMinuteMs - (now - w2[1])
             wait == IF ~oneSecondOk /\ ~twoMinuteOk THEN Min(waitOneSecond, waitTwoMinute)
                     ELSE IF ~oneSecondOk THEN waitOneSecond
                     ELSE waitTwoMinute IN
         /\ oneSecondWindow' = w1
         /\ twoMinuteWindow' = w2
         /\ callers' = [callers EXCEPT ![c] =
                          [pc |-> "sleeping", wakeAt |-> now + Max(MinSleepMs, wait)]]
         /\ UNCHANGED grants

\* A caller calls acquire(): the first iteration runs synchronously.
AcquireCall(c) ==
  /\ callers[c].pc = "idle"
  /\ AcquireIteration(c)
  /\ UNCHANGED now

\* The timer of a sleeping caller fires (at or after its delay) and the loop
\* runs its next iteration.
AcquireWake(c) ==
  /\ callers[c].pc = "sleeping"
  /\ now >= callers[c].wakeAt
  /\ AcquireIteration(c)
  /\ UNCHANGED now

LimiterInit ==
  /\ oneSecondWindow = <<>>
  /\ twoMinuteWindow = <<>>
  /\ callers = [c \in Callers |-> [pc |-> "idle", wakeAt |-> 0]]
  /\ grants = <<>>


NextLimiter ==
  \/ /\ \E c \in Callers : AcquireCall(c)
     /\ UNCHANGED <<backfillVars, clientVars, storeVars, jobVars, schedVars, routeVars, serviceVars, poolVars>>
  \/ /\ \E c \in Callers : AcquireWake(c)
     /\ UNCHANGED <<backfillVars, clientVars, storeVars, jobVars, schedVars, routeVars, serviceVars, poolVars>>
  \/ /\ Tick(LimiterMaxTime)
     /\ UNCHANGED <<backfillVars, limiterVars, clientVars, storeVars, jobVars, schedVars, routeVars, serviceVars, poolVars>>

\* The backfill service as bootstrap configures it by default, not yet used.
BackfillRest ==
  /\ BackfillInit
  /\ options = [enabled |-> TRUE, maxQueueSize |-> MaxQueueSizeBound, cooldownMs |-> MaxCooldown]

\* ------------------------------------------------------------------------
\* Match telemetry aggregator (scrapeMatchups main, RiotPrecomputeService)
\* ------------------------------------------------------------------------
Patch == "15.3"
Lanes == <<"top", "jungle", "mid">>

\* The role tag of the participants of a lane.
RIOT_TEAM_POSITION_BY_LANE == [top |-> "TOP", jungle |-> "JUNGLE", mid |-> "MIDDLE"]

\* CHAMPION_ALIASES[championKey(trimmed)] ?? trimmed, "" for a blank name.
normalizeChampionName(raw) ==
  IF raw = "" THEN ""
  ELSE IF raw = "MonkeyKing" THEN "Wukong"
  ELSE raw

\* A participant of a match with the timeline data the job reads for it:
\* totalGold in the first frame at or after 15 minutes (an optional number),
\* the CHAMPION_KILL events up to 6 minutes it is the killer of and those it
\* is the victim of (none unless stated: the victims of the kills are then
\* participants of other lanes), the keystone
\* perks.styles[0].selections[0].perk (optional) and item0.
Participant(position, name, win, gold, kills, perk, item0) ==
  [teamPosition |-> position, championName |-> name, win |-> win, totalGold |-> gold,
   pre6Kills |-> kills, pre6Deaths |-> 0, perk |-> perk, item0 |-> item0]

TopA(win, gold, kills) == Participant("TOP", "A", win, gold, kills, <<8010>>, 1055)
TopB(win, gold, kills) == Participant("TOP", "B", win, gold, kills, <<8437>>, 0)

MatchOf(status, participants) == [status |-> status, participants |-> participants]

\* The three matches of the finalization scenario: (top, A, B) with gold
\* differentials +300, -100, -200 and outcomes win, win, loss.
ScenarioMatch1 == MatchOf("ok", << TopA(TRUE, <<1300>>, 1), TopB(FALSE, <<1000>>, 0) >>)
ScenarioMatch2 == MatchOf("ok", << TopB(FALSE, <<1000>>, 2), TopA(TRUE, <<900>>, 0) >>)
ScenarioMatch3 == MatchOf("ok", << TopA(FALSE, <<800>>, 0), TopB(TRUE, <<1000>>, 1) >>)

\* An accepted match with pairings in two lanes and no 15 minute frame.
TwoLaneMatch ==
  MatchOf("ok", << TopA(TRUE, Undefined, 0), TopB(FALSE, Undefined, 0),
                   Participant("MIDDLE", "B", TRUE, Undefined, 1, Undefined, 1055),
                   Participant("MIDDLE", "A", FALSE, Undefined, 0, <<8010>>, 1056) >>)

\* An accepted match no lane of which is aggregated: one player in top, an
\* alias of the same champion on both sides of jungle, a blank name in mid.
NoPairingMatch ==
  MatchOf("ok", << TopA(TRUE, <<1300>>, 0),
                   Participant("JUNGLE", "MonkeyKing", TRUE, <<1300>>, 0, Undefined, 0),
                   Participant("JUNGLE", "Wukong", FALSE, <<1000>>, 0, Undefined, 0),
                   Participant("MIDDLE", "A", TRUE, <<1300>>, 0, Undefined, 0),
                   Participant("MIDDLE", "", FALSE, <<1000>>, 0, Undefined, 0) >>)

\* An accepted match in which top A, ahead in gold, is killed once before 6
\* minutes by the enemy jungler and not by B, who kills nobody.
GankedMatch ==
  MatchOf("ok", << [TopA(FALSE, <<1200>>, 0) EXCEPT !.pre6Deaths = 1],
                   TopB(TRUE, <<1000>>, 0),
                   Participant("JUNGLE", "Wukong", TRUE, <<1000>>, 1, Undefined, 0) >>)

\* What the API can answer for a match id: a failed request, a match of
\* another patch, or an accepted match.
MatchInputs ==
  { MatchOf("request_failed", <<>>),
    MatchOf("other_patch", << TopA(TRUE, <<1300>>, 1), TopB(FALSE, <<1000>>, 0) >>),
    ScenarioMatch1, ScenarioMatch2, ScenarioMatch3, TwoLaneMatch, NoPairingMatch }

\* A Map is the sequence of its <<key, value>> entries in insertion order.
MapHas(map, key) == \E i \in DOMAIN map : map[i][1] = key

MapGet(map, key, default) ==
  IF MapHas(map, key) THEN map[CHOOSE i \in DOMAIN map : map[i][1] = key][2] ELSE default

MapSet(map, key, value) ==
  IF MapHas(map, key)
    THEN [i \in DOMAIN map |-> IF map[i][1] = key THEN <<key, value>> ELSE map[i]]
    ELSE Append(map, <<key, value>>)

MapKeys(map) == { map[i][1] : i \in DOMAIN map }

\* new Map(entries)
RECURSIVE MapFromEntries(_)
MapFromEntries(entries) ==
  IF entries = <<>> THEN <<>>
  ELSE LET last == entries[Len(entries)] IN
       MapSet(MapFromEntries(SubSeq(entries, 1, Len(entries) - 1)), last[1], last[2])

increment(map, key) == MapSet(map, key, MapGet(map, key, 0) + 1)

EmptyBucket ==
  [games |-> 0, wins |-> 0, totalGoldDiff15 |-> 0, pre6Kills |-> 0, pre6Deaths |-> 0,
   runes |-> <<>>, items |-> <<>>]

\* `${options.patch}:${lane}:${playerName}:${enemyName}`
BucketKey(lane, playerName, enemyName) == <<Patch, lane, playerName, enemyName>>

BucketWins_IgnoreOutcome(bucket, player) == bucket.wins + 1

\* `if (player.win === true) bucket.wins += 1`
BucketWins(bucket, player) == IF player.win THEN bucket.wins + 1 ELSE bucket.wins

BucketDeaths_NeverCounted(bucket, enemy) == bucket.pre6Deaths

\* `bucket.pre6Deaths += pre6KillsByParticipant.get(enemyId) ?? 0`
BucketDeaths(bucket, enemy) == bucket.pre6Deaths + enemy.pre6Kills

applySide(map, lane, player, enemy, playerName, enemyName) ==
  LET key == BucketKey(lane, playerName, enemyName)
      bucket == MapGet(map, key, EmptyBucket)
      hasGold == player.totalGold # Undefined /\ enemy.totalGold # Undefined
      updated ==
        [games |-> bucket.games + 1,
         wins |-> BucketWins(bucket, player),
         totalGoldDiff15 |-> IF hasGold
                               THEN bucket.totalGoldDiff15 + (player.totalGold[1] - enemy.totalGold[1])
                               ELSE bucket.totalGoldDiff15,
         pre6Kills |-> bucket.pre6Kills + player.pre6Kills,
         pre6Deaths |-> BucketDeaths(bucket, enemy),
         runes |-> IF player.perk # Undefined THEN increment(bucket.runes, player.perk[1])
                   ELSE bucket.runes,
         items |-> IF player.item0 > 0 THEN increment(bucket.items, player.item0)
                   ELSE bucket.items] IN
  MapSet(map, key, updated)

LanePlayers(match, lane) ==
  SelectSeq(match.participants, LAMBDA p : p.teamPosition = RIOT_TEAM_POSITION_BY_LANE[lane])

LaneIsAggregated_MirrorAllowed(match, lane) ==
  LET lanePlayers == LanePlayers(match, lane) IN
  /\ Len(lanePlayers) = 2
  /\ normalizeChampionName(lanePlayers[1].championName) # ""
  /\ normalizeChampionName(lanePlayers[2].championName) # ""

\* The lane pairing the loop aggregates for a lane, if any.
LaneIsAggregated(match, lane) ==
  LET lanePlayers == LanePlayers(match, lane) IN
  /\ Len(lanePlayers) = 2
  /\ normalizeChampionName(lanePlayers[1].championName) # ""
  /\ normalizeChampionName(lanePlayers[2].championName) # ""
  /\ normalizeChampionName(lanePlayers[1].championName)
       # normalizeChampionName(lanePlayers[2].championName)

\* One pass of the lane loop.
ApplyLane(map, match, lane) ==
  IF ~LaneIsAggregated(match, lane) THEN map
  ELSE LET left == LanePlayers(match, lane)[1]
           right == LanePlayers(match, lane)[2]
           leftChampionName == normalizeChampionName(left.championName)
           rightChampionName == normalizeChampionName(right.championName) IN
       applySide(applySide(map, lane, left, right, leftChampionName, rightChampionName),
                 lane, right, left, rightChampionName, leftChampionName)

\* The lane loop of precomputeAll: the names are the participants' own
\* championName strings, compared and used in the key as they are.
PrecomputeLaneIsAggregated(match, lane) ==
  LET lanePlayers == LanePlayers(match, lane) IN
  /\ Len(lanePlayers) = 2
  /\ lanePlayers[1].championName # ""
  /\ lanePlayers[2].championName # ""
  /\ lanePlayers[1].championName # lanePlayers[2].championName

PrecomputeApplyLane(map, match, lane) ==
  IF ~PrecomputeLaneIsAggregated(match, lane) THEN map
  ELSE LET left == LanePlayers(match, lane)[1]
           right == LanePlayers(match, lane)[2] IN
       applySide(applySide(map, lane, left, right, left.championName, right.championName),
                 lane, right, left, right.championName, left.championName)

RECURSIVE PrecomputeApplyLanes(_, _, _)
PrecomputeApplyLanes(map, match, i) ==
  IF i > Len(Lanes) THEN map
  ELSE PrecomputeApplyLanes(PrecomputeApplyLane(map, match, Lanes[i]), match, i + 1)

\* The synchronous tail of precomputeAll's match handler, after its two
\* requests have settled: `return null` for a failed request or a match of
\* another patch, the lane loop otherwise.
PrecomputeHandler(map, match) ==
  IF match.status # "ok" THEN map ELSE PrecomputeApplyLanes(map, match, 1)

RECURSIVE ApplyLanes(_, _, _)
ApplyLanes(map, match, i) ==
  IF i > Len(Lanes) THEN map
  ELSE ApplyLanes(ApplyLane(map, match, Lanes[i]), match, i + 1)

\* The buckets after the loop body has handled one match id.
ProcessMatchBuckets(map, match) ==
  IF match.status # "ok" THEN map ELSE ApplyLanes(map, match, 1)

\* Number((n / d).toFixed(3)) in thousandths, for n >= 0 and d > 0.  The
\* quotient is rounded to the nearest thousandth; a tie needs 16 | d and is
\* exact in binary for d < 80, where toFixed takes the larger candidate.
ToFixed3_Truncating(n, d) == (1000 * n) \div d

ToFixed3(n, d) == (2000 * n + d) \div (2 * d)

\* Math.round(n / d) for d > 0: the nearest integer, halves towards +infinity.
MathRound(n, d) == (2 * n + d) \div (2 * d)

\* entries.sort((a, b) => b[1] - a[1]): a stable sort by descending count.
RECURSIVE InsertByCount(_, _)
InsertByCount(sorted, entry) ==
  IF sorted = <<>> THEN <<entry>>
  ELSE IF Head(sorted)[2] >= entry[2] THEN <<Head(sorted)>> \o InsertByCount(Tail(sorted), entry)
  ELSE <<entry>> \o sorted

RECURSIVE SortByCount(_)
SortByCount(entries) ==
  IF entries = <<>> THEN <<>>
  ELSE InsertByCount(SortByCount(SubSeq(entries, 1, Len(entries) - 1)), entries[Len(entries)])

TopThree(entries) ==
  LET sorted == SortByCount(entries) IN SubSeq(sorted, 1, Min(3, Len(sorted)))

RuneUsage(bucket) ==
  LET top == TopThree(bucket.runes) IN
  [i \in DOMAIN top |->
     [keystoneId |-> top[i][1], count |-> top[i][2], pct |-> ToFixed3(top[i][2], bucket.games)]]

FirstItemUsage(bucket) ==
  LET top == TopThree(bucket.items) IN
  [i \in DOMAIN top |->
     [itemId |-> top[i][1], count |-> top[i][2], pct |-> ToFixed3(top[i][2], bucket.games)]]

\* new Date(ms).toISOString()
ToISOString(ms) == [iso |-> ms]

\* The MatchupStats a bucket finalizes to; rates are in thousandths.
FinalizeStats(bucket, nowMs) ==
  [patch |-> Patch,
   games |-> bucket.games,
   winRate |-> ToFixed3(bucket.wins, bucket.games),
   goldDiff15 |-> MathRound(bucket.totalGoldDiff15, bucket.games),
   pre6KillRate |-> ToFixed3(bucket.pre6Kills, bucket.games),
   earlyDeathRate |-> ToFixed3(bucket.pre6Deaths, bucket.games),
   runeUsage |-> RuneUsage(bucket),
   firstItemUsage |-> FirstItemUsage(bucket),
   computedAt |-> ToISOString(nowMs)]

\* ------------------------------------------------------------------------
\* Matchup statistics store (MatchupStatsRepository over one shared SQLite
\* connection, PostgresMatchupStatsRepository over a connection pool)
\* ------------------------------------------------------------------------
Backends == {"sqlite", "postgres"}

StatsFieldOrder ==
  <<"patch", "games", "winRate", "goldDiff15", "pre6KillRate", "earlyDeathRate",
    "runeUsage", "firstItemUsage", "computedAt">>
RuneUsageFieldOrder == <<"keystoneId", "count", "pct">>
ItemUsageFieldOrder == <<"itemId", "count", "pct">>

\* JSON text of an object: its members in property order.
ObjectMembers(obj, names) == [i \in DOMAIN names |-> <<names[i], obj[names[i]]>>]

ArrayMembers(array, names) == [i \in DOMAIN array |-> ObjectMembers(array[i], names)]

JsonStringify(stats) ==
  ObjectMembers([stats EXCEPT !.runeUsage = ArrayMembers(@, RuneUsageFieldOrder),
                              !.firstItemUsage = ArrayMembers(@, ItemUsageFieldOrder)],
                StatsFieldOrder)

\* JSON.parse of an object text: the last member of a name wins.
ParseObject(members) ==
  [name \in { members[i][1] : i \in DOMAIN members } |->
     members[CHOOSE i \in DOMAIN members :
               /\ members[i][1] = name
               /\ \A j \in DOMAIN members : members[j][1] = name => j <= i][2]]

ParseArray(array) == [i \in DOMAIN array |-> ParseObject(array[i])]

JsonParse(text) ==
  [ParseObject(text) EXCEPT !.runeUsage = ParseArray(@), !.firstItemUsage = ParseArray(@)]

\* text::jsonb: an object is the unordered set of its members.
JsonbObject(members) ==
  { members[i] : i \in { i \in DOMAIN members :
                           \A j \in DOMAIN members : members[j][1] = members[i][1] => j <= i } }

JsonbArray(array) == [i \in DOMAIN array |-> JsonbObject(array[i])]

ToJsonb(text) ==
  JsonbObject([i \in DOMAIN text |->
                 IF text[i][1] \in {"runeUsage", "firstItemUsage"}
                   THEN <<text[i][1], JsonbArray(text[i][2])>>
                   ELSE text[i]])

\* The object the driver hands back for a jsonb column.
FromJsonbObject(jsonb) ==
  [name \in { m[1] : m \in jsonb } |-> (CHOOSE m \in jsonb : m[1] = name)[2]]

FromJsonbArray(array) == [i \in DOMAIN array |-> FromJsonbObject(array[i])]

FromJsonb(jsonb) ==
  [FromJsonbObject(jsonb) EXCEPT !.runeUsage = FromJsonbArray(@),
                                 !.firstItemUsage = FromJsonbArray(@)]

\* text::timestamptz
Timestamptz(text) == [instant |-> text.iso]

\* The row an INSERT statement of upsert builds from its parameters.
StoredRow(be, row) ==
  [patch |-> row.patch,
   lane |-> row.lane,
   player_champion |-> row.playerChampion,
   enemy_champion |-> row.enemyChampion,
   stats_json |-> IF be = "sqlite" THEN JsonStringify(row.stats)
                  ELSE ToJsonb(JsonStringify(row.stats)),
   computed_at |-> IF be = "sqlite" THEN row.stats.computedAt
                   ELSE Timestamptz(row.stats.computedAt),
   expires_at |-> row.expiresAtMs]

\* UNIQUE(patch, lane, player_champion, enemy_champion)
ConflictKey(stored) ==
  <<stored.patch, stored.lane, stored.player_champion, stored.enemy_champion>>

RowKey(row) == <<row.patch, row.lane, row.playerChampion, row.enemyChampion>>

InsertOrUpdate_PlainInsert(tbl, stored) == tbl \cup {stored}

\* INSERT ... ON CONFLICT (...) DO UPDATE SET stats_json, computed_at, expires_at
InsertOrUpdate(tbl, stored) ==
  { r \in tbl : ConflictKey(r) # ConflictKey(stored) } \cup {stored}

NoStats == [patch |-> "null"]

\* SELECT ... WHERE patch = ? AND lane = ? AND player_champion = ? AND
\* enemy_champion = ?; the time passed to get takes no part in it.
SelectByKey(tbl, key, nowMs) == { r \in tbl : ConflictKey(r) = key }

RepositoryGet(be, tbl, key, nowMs) ==
  LET rows == SelectByKey(tbl, key, nowMs) IN
  IF rows = {} THEN NoStats
  ELSE LET row == CHOOSE r \in rows : TRUE IN
       IF be = "sqlite" THEN JsonParse(row.stats_json) ELSE FromJsonb(row.stats_json)

FreshCase_Inclusive(stored, nowMs) == stored.expires_at >= nowMs

\* CASE WHEN expires_at > $now THEN 1 ELSE 0 END
FreshCase(stored, nowMs) == stored.expires_at > nowMs

\* CASE WHEN expires_at <= $now THEN 1 ELSE 0 END
StaleCase(stored, nowMs) == stored.expires_at <= nowMs

\* WHERE patch = $patch AND ($lane IS NULL OR lane = $lane)
OverviewRows(tbl, patch, lane) ==
  { r \in tbl : r.patch = patch /\ (lane = Undefined \/ r.lane = lane[1]) }

ComputedAtMs(be, stored) ==
  IF be = "sqlite" THEN stored.computed_at.iso ELSE stored.computed_at.instant

\* MAX(computed_at), as text; null over no rows.
LatestComputedAt(be, rows) ==
  IF rows = {} THEN Undefined
  ELSE LET latest == CHOOSE r \in rows :
                       \A o \in rows : ComputedAtMs(be, o) <= ComputedAtMs(be, r) IN
       IF be = "sqlite" THEN <<latest.computed_at>>
       ELSE <<[pgText |-> latest.computed_at.instant]>>

CacheOverview(be, tbl, patch, lane, nowMs) ==
  LET rows == OverviewRows(tbl, patch, lane) IN
  [totalCount |-> Cardinality(rows),
   freshCount |-> Cardinality({ r \in rows : FreshCase(r, nowMs) }),
   staleCount |-> Cardinality({ r \in rows : StaleCase(r, nowMs) }),
   latestComputedAt |-> LatestComputedAt(be, rows)]

\* Inputs of the store operations.
StatsOne == FinalizeStats(ApplyLanes(<<>>, ScenarioMatch1, 1)[1][2], 1)
StatsTwo == FinalizeStats(ApplyLanes(<<>>, TwoLaneMatch, 1)[3][2], 2)

UpsertRow(patch, lane, stats, expiresAtMs) ==
  [patch |-> patch, lane |-> lane, playerChampion |-> "A", enemyChampion |-> "B",
   stats |-> [stats EXCEPT !.patch = patch], expiresAtMs |-> expiresAtMs]

UpsertInputs ==
  { UpsertRow("15.3", "top", StatsOne, 1), UpsertRow("15.3", "top", StatsTwo, 2),
    UpsertRow("15.2", "top", StatsOne, 1) }

StoreKeys == { RowKey(row) : row \in UpsertInputs }

RowBatches ==
  { <<>>,
    << UpsertRow("15.3", "mid", StatsOne, 1), UpsertRow("15.3", "top", StatsOne, 2),
       UpsertRow("15.2", "top", StatsTwo, 2) >> }

Flushers == 1..NumFlushers

\* The bulk job is the first caller of upsertMany.
JobFlusher == 1

\* replaced is history: for each row the open transaction has written, the
\* rows it found under the row's key.
IdleFlusher == [pc |-> "idle", rows |-> <<>>, next |-> 1, chunkEnd |-> 0, pending |-> <<>>,
                replaced |-> <<>>, outcome |-> "none"]

NoCall == [op |-> "none", args |-> <<>>, result |-> NoStats]

\* Keys another open transaction has written (row locks of the pool backend).
LockedKeys(f) ==
  UNION { { ConflictKey(flushers[g].pending[i]) : i \in DOMAIN flushers[g].pending } :
          g \in Flushers \ {f} }

\* A write on a key ends what the last completed upsert on it stands for.
Overwritten(key) ==
  [k \in DOMAIN lastUpsert |-> IF k = key THEN NoStats ELSE lastUpsert[k]]

\* upsert(patch, lane, playerChampion, enemyChampion, stats, expiresAtMs) by a
\* caller of its own: one statement, on the shared connection (inside
\* whatever transaction is open on it) or autocommitted through the pool.
Upsert(row) ==
  /\ backend = "postgres" => RowKey(row) \notin LockedKeys(0)
  /\ table' = InsertOrUpdate(table, StoredRow(backend, row))
  /\ lastUpsert' = [k \in DOMAIN lastUpsert \cup {RowKey(row)} |->
                      IF k = RowKey(row) THEN row.stats ELSE lastUpsert[k]]
  /\ UNCHANGED <<backend, inTransaction, rollbackImage, flushers, lastCall>>

\* get(patch, lane, playerChampion, enemyChampion, nowMs)
Get(key, nowMs) ==
  /\ lastCall' = [op |-> "get", args |-> key,
                  result |-> RepositoryGet(backend, table, key, nowMs)]
  /\ UNCHANGED <<backend, table, inTransaction, rollbackImage, flushers, lastUpsert>>

\* getCacheOverview(patch, lane, nowMs)
GetCacheOverview(patch, lane, nowMs) ==
  /\ lastCall' = [op |-> "getCacheOverview", args |-> <<patch, lane, nowMs>>,
                  result |-> CacheOverview(backend, table, patch, lane, nowMs)]
  /\ UNCHANGED <<backend, table, inTransaction, rollbackImage, flushers, lastUpsert>>

\* upsertMany(rows) up to its first row: nothing for no rows; BEGIN on the
\* shared connection, which fails inside an open transaction (before the
\* try block); a pool client and BEGIN for the first chunk.
UpsertManyCall(f, rows) ==
  /\ flushers[f].pc = "idle"
  /\ IF rows = <<>>
       THEN /\ flushers' = [flushers EXCEPT ![f] = [IdleFlusher EXCEPT !.outcome = "ok"]]
            /\ UNCHANGED <<inTransaction, rollbackImage>>
     ELSE IF backend = "sqlite" /\ inTransaction
       THEN /\ flushers' = [flushers EXCEPT ![f] = [IdleFlusher EXCEPT !.outcome = "error"]]
            /\ UNCHANGED <<inTransaction, rollbackImage>>
     ELSE /\ flushers' = [flushers EXCEPT ![f] =
                            [pc |-> "rows", rows |-> rows, next |-> 1,
                             chunkEnd |-> IF backend = "sqlite" THEN Len(rows)
                                          ELSE Min(ChunkSize, Len(rows)),
                             pending |-> <<>>, replaced |-> <<>>, outcome |-> "none"]]
          /\ inTransaction' = (backend = "sqlite")
          /\ rollbackImage' = IF backend = "sqlite" THEN table ELSE rollbackImage
  /\ UNCHANGED <<backend, table, lastUpsert, lastCall>>

\* catch: ROLLBACK, rethrow.
Rollback(f) ==
  /\ flushers' = [flushers EXCEPT ![f] = [IdleFlusher EXCEPT !.outcome = "error"]]
  /\ IF backend = "sqlite"
       THEN table' = rollbackImage /\ inTransaction' = FALSE /\ rollbackImage' = {}
       ELSE UNCHANGED <<table, inTransaction, rollbackImage>>
  /\ UNCHANGED lastUpsert

RECURSIVE ApplyPending(_, _)
ApplyPending(tbl, pending) ==
  IF pending = <<>> THEN tbl
  ELSE ApplyPending(InsertOrUpdate(tbl, Head(pending)), Tail(pending))

\* What the transaction of caller f reads under the key of a row it is about
\* to write: the table with its own uncommitted writes.
RowsUnderKey(f, stored) ==
  { r \in ApplyPending(table, flushers[f].pending) : ConflictKey(r) = ConflictKey(stored) }

\* The statement of the next row of the open transaction, which succeeds or
\* is rejected by the database.
UpsertManyRow(f, ok) ==
  LET me == flushers[f]
      stored == StoredRow(backend, me.rows[me.next]) IN
  /\ me.pc = "rows"
  /\ me.next <= me.chunkEnd
  /\ IF ~ok THEN Rollback(f)
     ELSE /\ backend = "postgres" => ConflictKey(stored) \notin LockedKeys(f)
          /\ flushers' = [flushers EXCEPT ![f].next = @ + 1,
                                          ![f].pending = IF backend = "sqlite" THEN @
                                                         ELSE Append(@, stored),
                                          ![f].replaced = Append(@, RowsUnderKey(f, stored))]
          /\ table' = IF backend = "sqlite" THEN InsertOrUpdate(table, stored) ELSE table
          /\ lastUpsert' = Overwritten(ConflictKey(stored))
          /\ UNCHANGED <<inTransaction, rollbackImage>>
  /\ UNCHANGED <<backend, lastCall>>

\* COMMIT of the open transaction, then the next chunk's client and BEGIN.
UpsertManyCommit(f, ok) ==
  LET me == flushers[f] IN
  /\ me.pc = "rows"
  /\ me.next > me.chunkEnd
  /\ IF ~ok THEN Rollback(f)
     ELSE /\ table' = IF backend = "sqlite" THEN table ELSE ApplyPending(table, me.pending)
          /\ inTransaction' = FALSE
          /\ rollbackImage' = {}
          /\ flushers' = [flushers EXCEPT ![f] =
                            IF me.chunkEnd < Len(me.rows)
                              THEN [me EXCEPT !.chunkEnd = Min(me.chunkEnd + ChunkSize, Len(me.rows)),
                                              !.pending = <<>>, !.replaced = <<>>]
                              ELSE [IdleFlusher EXCEPT !.outcome = "ok"]]
          /\ UNCHANGED lastUpsert
  /\ UNCHANGED <<backend, lastCall>>

StoreInit ==
  /\ backend \in Backends
  /\ table = {}
  /\ inTransaction = FALSE
  /\ rollbackImage = {}
  /\ flushers = [f \in Flushers |-> IdleFlusher]
  /\ lastUpsert = [k \in StoreKeys |-> NoStats]
  /\ lastCall = NoCall

\* ------------------------------------------------------------------------
\* Bulk crawl job (scrapeMatchups main): discovery, processing, flush
\* ------------------------------------------------------------------------
Players == 1..NumPlayers
MatchIds == 1..(NumPlayers + 1)

\* entries of the three league lists, in order
LeaguePuuids == [i \in Players |-> i]

\* What /matches/by-puuid/{puuid}/ids answers: neighbours share a match.
MatchIdsByPuuid(puuid) == <<puuid, puuid + 1>>

Slice(seq, n) == SubSeq(seq, 1, Min(n, Len(seq)))

\* [...new Set(ids)]
Dedup_KeepsAll(ids) == ids

RECURSIVE Dedup(_)
Dedup(ids) ==
  IF ids = <<>> THEN <<>>
  ELSE LET init == Dedup(SubSeq(ids, 1, Len(ids) - 1))
           last == ids[Len(ids)] IN
       IF \E i \in DOMAIN init : init[i] = last THEN init ELSE Append(init, last)

\* parseArgs() of a run with the default caps scaled to the league.
BaseOptions(every) ==
  [patch |-> Patch, lanes |-> Lanes, maxPlayers |-> NumPlayers, matchesPerPlayer |-> 2,
   maxUniqueMatches |-> NumPlayers + 1, resume |-> TRUE, checkpointEvery |-> every]

\* The command lines a later run of the job may be given.
RunOptions(first) ==
  { first, [first EXCEPT !.maxUniqueMatches = @ - 1], [first EXCEPT !.resume = FALSE] }

\* lanes.join(",")
JoinLanes(lanes) == [separator |-> ",", parts |-> lanes]

serializeBuckets_NoWins(map) ==
  [i \in DOMAIN map |->
     <<map[i][1],
       [games |-> map[i][2].games, wins |-> 0,
        totalGoldDiff15 |-> map[i][2].totalGoldDiff15, pre6Kills |-> map[i][2].pre6Kills,
        pre6Deaths |-> map[i][2].pre6Deaths, runes |-> map[i][2].runes,
        items |-> map[i][2].items]>>]

\* out[key] = { ...counters, runes: [...b.runes.entries()], items: [...] }
serializeBuckets(map) ==
  [i \in DOMAIN map |->
     <<map[i][1],
       [games |-> map[i][2].games, wins |-> map[i][2].wins,
        totalGoldDiff15 |-> map[i][2].totalGoldDiff15, pre6Kills |-> map[i][2].pre6Kills,
        pre6Deaths |-> map[i][2].pre6Deaths, runes |-> map[i][2].runes,
        items |-> map[i][2].items]>>]

\* map.set(key, { ...counters, runes: new Map(b.runes), items: new Map(b.items) })
deserializeBuckets(raw) ==
  MapFromEntries([i \in DOMAIN raw |->
     <<raw[i][1],
       [games |-> raw[i][2].games, wins |-> raw[i][2].wins,
        totalGoldDiff15 |-> raw[i][2].totalGoldDiff15, pre6Kills |-> raw[i][2].pre6Kills,
        pre6Deaths |-> raw[i][2].pre6Deaths, runes |-> MapFromEntries(raw[i][2].runes),
        items |-> MapFromEntries(raw[i][2].items)]>>])

\* loadCheckpoint answers null for a missing or unparsable file.
NoCheckpoint == [version |-> 0]
TornCheckpoint == [version |-> -1]

loadCheckpoint(file) == IF file = TornCheckpoint THEN NoCheckpoint ELSE file

\* The object handed to saveCheckpoint.
Checkpoint(opts, ph, pu, playerIndex, allIds, uniqueIds, matchIndex, processed, map) ==
  [version |-> 1,
   savedAt |-> ToISOString(now),
   options |-> [patch |-> opts.patch, lanes |-> opts.lanes, maxPlayers |-> opts.maxPlayers,
                matchesPerPlayer |-> opts.matchesPerPlayer,
                maxUniqueMatches |-> opts.maxUniqueMatches],
   phase |-> ph, puuids |-> pu, nextPlayerIndex |-> playerIndex, allMatchIds |-> allIds,
   uniqueMatchIds |-> uniqueIds, nextMatchIndex |-> matchIndex,
   matchesProcessed |-> processed, buckets |-> serializeBuckets(map)]

CheckpointMatches_IgnoresMatchCap(checkpoint, opts) ==
  /\ checkpoint # NoCheckpoint
  /\ checkpoint.version = 1
  /\ checkpoint.options.patch = opts.patch
  /\ JoinLanes(checkpoint.options.lanes) = JoinLanes(opts.lanes)
  /\ checkpoint.options.maxPlayers = opts.maxPlayers
  /\ checkpoint.options.matchesPerPlayer = opts.matchesPerPlayer

\* The test that lets a run take over a checkpoint.
CheckpointMatches(checkpoint, opts) ==
  /\ checkpoint # NoCheckpoint
  /\ checkpoint.version = 1
  /\ checkpoint.options.patch = opts.patch
  /\ JoinLanes(checkpoint.options.lanes) = JoinLanes(opts.lanes)
  /\ checkpoint.options.maxPlayers = opts.maxPlayers
  /\ checkpoint.options.matchesPerPlayer = opts.matchesPerPlayer
  /\ checkpoint.options.maxUniqueMatches = opts.maxUniqueMatches

\* The locals of main() as declared.
FreshLocals ==
  [puuids |-> <<>>, nextPlayerIndex |-> 0, allMatchIds |-> <<>>, uniqueMatchIds |-> <<>>,
   nextMatchIndex |-> 0, matchesProcessed |-> 0, buckets |-> <<>>, phase |-> "match_ids"]

ResumedLocals_RestartsMatchIndex(file, opts) ==
  LET checkpoint == loadCheckpoint(file) IN
  IF opts.resume /\ CheckpointMatches(checkpoint, opts)
    THEN [puuids |-> checkpoint.puuids, nextPlayerIndex |-> checkpoint.nextPlayerIndex,
          allMatchIds |-> checkpoint.allMatchIds, uniqueMatchIds |-> checkpoint.uniqueMatchIds,
          nextMatchIndex |-> FreshLocals.nextMatchIndex,
          matchesProcessed |-> checkpoint.matchesProcessed,
          buckets |-> deserializeBuckets(checkpoint.buckets), phase |-> checkpoint.phase]
    ELSE FreshLocals

\* The locals after the resume block.
ResumedLocals(file, opts) ==
  LET checkpoint == loadCheckpoint(file) IN
  IF opts.resume /\ CheckpointMatches(checkpoint, opts)
    THEN [puuids |-> checkpoint.puuids, nextPlayerIndex |-> checkpoint.nextPlayerIndex,
          allMatchIds |-> checkpoint.allMatchIds, uniqueMatchIds |-> checkpoint.uniqueMatchIds,
          nextMatchIndex |-> checkpoint.nextMatchIndex,
          matchesProcessed |-> checkpoint.matchesProcessed,
          buckets |-> deserializeBuckets(checkpoint.buckets), phase |-> checkpoint.phase]
    ELSE FreshLocals

SetLocals(locals) ==
  /\ puuids' = locals.puuids
  /\ nextPlayerIndex' = locals.nextPlayerIndex
  /\ allMatchIds' = locals.allMatchIds
  /\ uniqueMatchIds' = locals.uniqueMatchIds
  /\ nextMatchIndex' = locals.nextMatchIndex
  /\ matchesProcessed' = locals.matchesProcessed
  /\ buckets' = locals.buckets
  /\ phase' = locals.phase

\* `(i + 1) % options.checkpointEvery === 0`
CheckpointDue(handled) == handled % jobOptions.checkpointEvery = 0

\* The process ends: its memory is gone.
ProcessEnds(exit) ==
  /\ jobPc' = "stopped"
  /\ jobExit' = exit
  /\ SetLocals(FreshLocals)

\* await saveCheckpoint(...) of the state the step has just reached: the file
\* is replaced, or the process is killed while the file is being written.
SaveCheckpoint(save, pc, locals) ==
  IF save = "written"
    THEN /\ checkpointFile' =
              Checkpoint(jobOptions, locals.phase, locals.puuids, locals.nextPlayerIndex,
                         locals.allMatchIds, locals.uniqueMatchIds, locals.nextMatchIndex,
                         locals.matchesProcessed, locals.buckets)
         /\ jobPc' = pc
         /\ SetLocals(locals)
         /\ UNCHANGED jobExit
    ELSE /\ checkpointFile' = TornCheckpoint
         /\ ProcessEnds("killed")

CurrentLocals ==
  [puuids |-> puuids, nextPlayerIndex |-> nextPlayerIndex, allMatchIds |-> allMatchIds,
   uniqueMatchIds |-> uniqueMatchIds, nextMatchIndex |-> nextMatchIndex,
   matchesProcessed |-> matchesProcessed, buckets |-> buckets, phase |-> phase]

\* main() from its start to the first request of a loop: parseArgs, the
\* resume block, and the league lists when no player list was taken over.
JobStart(opts) ==
  LET locals == ResumedLocals(checkpointFile, opts)
      withPlayers ==
        IF locals.puuids = <<>>
          THEN [locals EXCEPT !.puuids = Slice(LeaguePuuids, opts.maxPlayers)]
          ELSE locals IN
  /\ jobPc = "stopped"
  /\ runs < MaxRuns
  /\ runs = 0 => opts = jobOptions
  /\ runs' = runs + 1
  /\ jobOptions' = opts
  /\ resumedFrom' = IF opts.resume /\ CheckpointMatches(loadCheckpoint(checkpointFile), opts)
                      THEN checkpointFile ELSE NoCheckpoint
  /\ SetLocals(withPlayers)
  /\ jobPc' = withPlayers.phase
  /\ jobExit' = "none"
  /\ UNCHANGED <<checkpointFile, matchData, storeVars>>

\* One pass of the discovery loop: the match ids of the next player.  A
\* failed request is not caught and ends the run.
JobFetchMatchIds(ok, save) ==
  LET i == nextPlayerIndex
      ids == Slice(MatchIdsByPuuid(puuids[i + 1]), jobOptions.matchesPerPlayer)
      locals == [CurrentLocals EXCEPT !.allMatchIds = @ \o ids, !.nextPlayerIndex = i + 1] IN
  /\ jobPc = "match_ids"
  /\ i < Len(puuids)
  /\ IF ~ok
       THEN save = "written" /\ ProcessEnds("error") /\ UNCHANGED checkpointFile
     ELSE IF CheckpointDue(i + 1)
       THEN SaveCheckpoint(save, "match_ids", locals)
     ELSE /\ save = "written"
          /\ SetLocals(locals)
          /\ UNCHANGED <<jobPc, jobExit, checkpointFile>>
  /\ UNCHANGED <<jobOptions, runs, resumedFrom, matchData, storeVars>>

\* The end of the discovery phase: the distinct match ids, capped, become
\* the work list of the processing phase, and the state is saved.
JobQueueMatches(save) ==
  LET locals == [CurrentLocals EXCEPT
                   !.uniqueMatchIds = Slice(Dedup(allMatchIds), jobOptions.maxUniqueMatches),
                   !.phase = "matches",
                   !.nextMatchIndex = 0] IN
  /\ jobPc = "match_ids"
  /\ nextPlayerIndex >= Len(puuids)
  /\ SaveCheckpoint(save, "matches", locals)
  /\ UNCHANGED <<jobOptions, runs, resumedFrom, matchData, storeVars>>

\* One pass of the processing loop.  A match whose requests fail or whose
\* patch differs only moves the index; an accepted match is aggregated.
JobProcessMatch(save) ==
  LET i == nextMatchIndex
      match == matchData[uniqueMatchIds[i + 1]]
      locals == [CurrentLocals EXCEPT !.buckets = ProcessMatchBuckets(buckets, match),
                                      !.matchesProcessed = @ + 1,
                                      !.nextMatchIndex = i + 1] IN
  /\ jobPc = "matches"
  /\ i < Len(uniqueMatchIds)
  /\ IF match.status # "ok"
       THEN /\ save = "written"
            /\ SetLocals([CurrentLocals EXCEPT !.nextMatchIndex = i + 1])
            /\ UNCHANGED <<jobPc, jobExit, checkpointFile>>
     ELSE IF CheckpointDue(i + 1)
       THEN SaveCheckpoint(save, "matches", locals)
     ELSE /\ save = "written"
          /\ SetLocals(locals)
          /\ UNCHANGED <<jobPc, jobExit, checkpointFile>>
  /\ UNCHANGED <<jobOptions, runs, resumedFrom, matchData, storeVars>>

\* const [, lane, playerChampion, enemyChampion] = key.split(":") and the
\* finalized statistics of the bucket.
FinalizeRow(entry, nowMs) ==
  [patch |-> Patch, lane |-> entry[1][2], playerChampion |-> entry[1][3],
   enemyChampion |-> entry[1][4], stats |-> FinalizeStats(entry[2], nowMs),
   expiresAtMs |-> nowMs + StatsCacheTtlMs]

FinalizeRows(map, nowMs) == [i \in DOMAIN map |-> FinalizeRow(map[i], nowMs)]

\* After the loop: the rows of all buckets go to upsertMany.
JobFlush ==
  /\ jobPc = "matches"
  /\ nextMatchIndex >= Len(uniqueMatchIds)
  /\ jobPc' = "flush"
  /\ UpsertManyCall(JobFlusher, FinalizeRows(buckets, now))
  /\ UNCHANGED <<jobExit, jobOptions, runs, resumedFrom, matchData, checkpointFile,
                 puuids, nextPlayerIndex, allMatchIds, uniqueMatchIds, nextMatchIndex,
                 matchesProcessed, buckets, phase>>

JobFlushRow(ok) ==
  /\ jobPc = "flush"
  /\ UpsertManyRow(JobFlusher, ok)
  /\ UNCHANGED jobVars

JobFlushCommit(ok) ==
  /\ jobPc = "flush"
  /\ UpsertManyCommit(JobFlusher, ok)
  /\ UNCHANGED jobVars

\* `await repository.upsertMany(rows); await clearCheckpoint(...)`: the
\* second statement is reached only when the first did not throw.
ReachesClearCheckpoint_Always(outcome) == TRUE

ReachesClearCheckpoint(outcome) == outcome = "ok"

\* upsertMany has returned or thrown: clearCheckpoint (an unlink that fails is
\* ignored) and the end of main(), or the error ends the run.
JobFinish(unlinked) ==
  /\ jobPc = "flush"
  /\ flushers[JobFlusher].pc = "idle"
  /\ jobPc' = "stopped"
  /\ IF ReachesClearCheckpoint(flushers[JobFlusher].outcome)
       THEN /\ jobExit' = "done"
            /\ checkpointFile' = IF unlinked THEN NoCheckpoint ELSE checkpointFile
       ELSE /\ unlinked
            /\ jobExit' = "error"
            /\ UNCHANGED checkpointFile
  /\ UNCHANGED <<jobOptions, runs, resumedFrom, matchData, storeVars,
                 puuids, nextPlayerIndex, allMatchIds, uniqueMatchIds, nextMatchIndex,
                 matchesProcessed, buckets, phase>>

\* The process is killed; a transaction it has open is rolled back.
JobKill ==
  /\ jobPc # "stopped"
  /\ ProcessEnds("killed")
  /\ IF flushers[JobFlusher].pc # "idle"
       THEN Rollback(JobFlusher)
       ELSE UNCHANGED <<table, inTransaction, rollbackImage, flushers, lastUpsert>>
  /\ UNCHANGED <<jobOptions, runs, resumedFrom, matchData, checkpointFile, backend, lastCall>>

JobInit ==
  /\ jobPc = "stopped"
  /\ jobExit = "none"
  /\ jobOptions \in { BaseOptions(every) : every \in 1..MaxCheckpointEvery }
  /\ runs = 0
  /\ resumedFrom = NoCheckpoint
  /\ checkpointFile = NoCheckpoint
  /\ puuids = <<>>
  /\ nextPlayerIndex = 0
  /\ allMatchIds = <<>>
  /\ uniqueMatchIds = <<>>
  /\ nextMatchIndex = 0
  /\ matchesProcessed = 0
  /\ buckets = <<>>
  /\ phase = "match_ids"

\* What the API answers for each match id, the same in every run.
MatchDataInit(inputs) == matchData \in [MatchIds -> inputs]

\* The answers the interrupted runs are checked against.
JobMatchInputs ==
  { MatchOf("request_failed", <<>>),
    MatchOf("other_patch", << TopA(TRUE, <<1300>>, 1), TopB(FALSE, <<1000>>, 0) >>),
    ScenarioMatch1, TwoLaneMatch }

\* ------------------------------------------------------------------------
\* RiotApiClient
\* The defaults of the client are minIntervalMs 150, retryBaseMs 800 and
\* rateLimitCooldownMs 45000; the model scales the three durations down and
\* keeps their order (interval < retry base < cooldown floor).
\* ------------------------------------------------------------------------
MinIntervalMs == 1
RetryBaseMs == 1
RateLimitCooldownMs == 3
MaxRetries == 2
NumCalls == 2
ClientMaxTime == 5

CallIds == 1..NumCalls

\* The responses of the network: HTTP status with the retry-after header
\* converted to (scaled) milliseconds, 0 when the header is absent or not a
\* positive number; status 0 stands for a rejected fetch (network error).
Responses ==
  { [status |-> 200, retryAfterMs |-> 0],
    [status |-> 429, retryAfterMs |-> 0],
    [status |-> 429, retryAfterMs |-> RateLimitCooldownMs + 1],
    [status |-> 500, retryAfterMs |-> 0],
    [status |-> 0, retryAfterMs |-> 0] }

RECURSIVE Pow2(_)
Pow2(n) == IF n = 0 THEN 1 ELSE 2 * Pow2(n - 1)

getRetryDelayMs(response, attempt) ==
  IF response.retryAfterMs > 0 THEN response.retryAfterMs
  ELSE RetryBaseMs * Pow2(attempt)

activateCooldown_NoFloor(delayMs) == Max(cooldownUntilMs, now + delayMs)

\* The value activateCooldown(delayMs) leaves in cooldownUntilMs.
activateCooldown(delayMs) ==
  LET durationMs == Max(delayMs, RateLimitCooldownMs) IN
  Max(cooldownUntilMs, now + durationMs)

IdleCall(result) == [pc |-> "idle", attempt |-> 0, wakeAt |-> 0, result |-> result]

\* request(): the cooldown test on entry, then the first enqueue.
CallRequest(c) ==
  /\ calls[c].pc = "idle"
  /\ IF now < cooldownUntilMs
       THEN /\ calls' = [calls EXCEPT ![c] = IdleCall("cooldown_active")]
            /\ UNCHANGED requestQueue
       ELSE /\ calls' = [calls EXCEPT ![c] =
                           [pc |-> "queued", attempt |-> 0, wakeAt |-> 0, result |-> "pending"]]
            /\ requestQueue' = Append(requestQueue, c)
  /\ UNCHANGED <<now, lastRequestAtMs, cooldownUntilMs, fetchLog>>

\* Math.max(0, this.lastRequestAtMs + minInterval - now): what the task at
\* the head of the chain still has to sleep before it may call its handler.
waitMs_NoInterval == Max(0, lastRequestAtMs - now)

waitMs == Max(0, (lastRequestAtMs + MinIntervalMs) - now)

\* The task at the head of the promise chain has waited for the minimum
\* interval: it stamps lastRequestAtMs and calls its handler, the fetch.
Dispatch(c) ==
  /\ Len(requestQueue) > 0
  /\ c = Head(requestQueue)
  /\ calls[c].pc = "queued"
  /\ waitMs = 0
  /\ lastRequestAtMs' = now
  /\ calls' = [calls EXCEPT ![c].pc = "fetching"]
  /\ fetchLog' = Append(fetchLog, [call |-> c, attempt |-> calls[c].attempt, at |-> now])
  /\ UNCHANGED <<now, requestQueue, cooldownUntilMs>>

\* `response.status === 429 && attempt < maxRetries`
canRetry_AnyFailure(response, attempt) == response.status # 200 /\ attempt < MaxRetries

canRetry(response, attempt) == response.status = 429 /\ attempt < MaxRetries

\* The fetch of call c settles: the task leaves the chain and request()
\* handles the response.
Respond(c, response) ==
  /\ calls[c].pc = "fetching"
  /\ requestQueue' = Tail(requestQueue)
  /\ LET attempt == calls[c].attempt
         delayMs == getRetryDelayMs(response, attempt) IN
     /\ cooldownUntilMs' = IF response.status = 429 THEN activateCooldown(delayMs)
                           ELSE cooldownUntilMs
     /\ calls' = [calls EXCEPT ![c] =
          IF response.status = 200 THEN IdleCall("ok")
          ELSE IF response.status = 0 THEN IdleCall("network_error")
          ELSE IF ~canRetry(response, attempt) THEN IdleCall("http_error")
          ELSE [pc |-> "sleeping", attempt |-> attempt, wakeAt |-> now + delayMs,
                result |-> "pending"]]
  /\ UNCHANGED <<now, lastRequestAtMs, fetchLog>>

\* The retry sleep is over: the for loop runs its next attempt through enqueue.
RetryWake(c) ==
  /\ calls[c].pc = "sleeping"
  /\ now >= calls[c].wakeAt
  /\ calls' = [calls EXCEPT ![c].pc = "queued", ![c].attempt = @ + 1]
  /\ requestQueue' = Append(requestQueue, c)
  /\ UNCHANGED <<now, lastRequestAtMs, cooldownUntilMs, fetchLog>>

ClientInit ==
  /\ requestQueue = <<>>
  /\ lastRequestAtMs = 0
  /\ cooldownUntilMs = 0
  /\ calls = [c \in CallIds |-> IdleCall("none")]
  /\ fetchLog = <<>>


NextClient ==
  \/ /\ \E c \in CallIds : CallRequest(c)
     /\ UNCHANGED <<backfillVars, limiterVars, storeVars, jobVars, schedVars, routeVars, serviceVars, poolVars>>
  \/ /\ \E c \in CallIds : Dispatch(c)
     /\ UNCHANGED <<backfillVars, limiterVars, storeVars, jobVars, schedVars, routeVars, serviceVars, poolVars>>
  \/ /\ \E c \in CallIds, response \in Responses : Respond(c, response)
     /\ UNCHANGED <<backfillVars, limiterVars, storeVars, jobVars, schedVars, routeVars, serviceVars, poolVars>>
  \/ /\ \E c \in CallIds : RetryWake(c)
     /\ UNCHANGED <<backfillVars, limiterVars, storeVars, jobVars, schedVars, routeVars, serviceVars, poolVars>>
  \/ /\ Tick(ClientMaxTime)
     /\ UNCHANGED <<backfillVars, limiterVars, clientVars, storeVars, jobVars, schedVars, routeVars, serviceVars, poolVars>>

\* ------------------------------------------------------------------------
\* startNightlyPrecompute (nightly scheduler) and POST /admin/precompute-cache
\* The scheduler reads the clock only through the time of day, so in its
\* specification `now` is Date.now() modulo one UTC day, and a pending timer
\* is kept as the delay it has left.  A day has HoursPerDay hours; the clamp
\* of the hour to 0..23 becomes the clamp to 0..HoursPerDay - 1.
\* ------------------------------------------------------------------------
DayTicks == HoursPerDay * TicksPerHour

msUntilNextRun_SameInstantAllowed(hourUtc, t) ==
  LET next == (t - (t % DayTicks)) + hourUtc * TicksPerHour IN
  IF next < t THEN (next + DayTicks) - t ELSE next - t

\* next.setUTCHours(hourUtc, 0, 0, 0); one day later when not after now
msUntilNextRun(hourUtc, t) ==
  LET next == (t - (t % DayTicks)) + hourUtc * TicksPerHour IN
  IF next <= t THEN (next + DayTicks) - t ELSE next - t

\* Math.min(23, Math.max(0, Math.floor(options.hourUtc)))
clampedHour == Min(HoursPerDay - 1, Max(0, nightlyOptions.hourUtc))

\* scheduleNext(): setTimeout(callback, msUntilNextRun(clampedHour))
scheduleNext(pending) == Append(pending, msUntilNextRun(clampedHour, now))

RemoveAt(seq, i) == [j \in 1..(Len(seq) - 1) |-> IF j < i THEN seq[j] ELSE seq[j + 1]]

\* The callback of a timer whose delay has run out starts, up to its await
\* of precomputeAll.
TimerFires(i) ==
  /\ i \in DOMAIN timers
  /\ timers[i] = 0
  /\ timers' = RemoveAt(timers, i)
  /\ nightlyJobs' = nightlyJobs + 1
  /\ utcDay' = [starts |-> utcDay.starts + 1, late |-> utcDay.late \/ utcDay.carried,
                carried |-> FALSE]
  /\ UNCHANGED <<now, nightlyOptions, adminJobs, lastNightly>>

\* `finally { scheduleNext(); }`: the callback arms the next timer whether
\* precomputeAll resolved or threw.
RearmsAfter_OnlyOnSuccess(ok) == ok

RearmsAfter(ok) == TRUE

\* precomputeAll of the timer callback settles: the outcome is logged and
\* the finally block runs.
NightlySettles(ok) ==
  /\ nightlyJobs > 0
  /\ nightlyJobs' = nightlyJobs - 1
  /\ lastNightly' = IF ok THEN "completed" ELSE "failed"
  /\ timers' = IF RearmsAfter(ok) THEN scheduleNext(timers) ELSE timers
  /\ UNCHANGED <<now, nightlyOptions, adminJobs, utcDay>>

\* POST /admin/precompute-cache with a valid token: the handler calls
\* precomputeAll and awaits it.
AdminPrecompute ==
  /\ adminJobs < MaxAdminRequests
  /\ adminJobs' = adminJobs + 1
  /\ UNCHANGED <<now, nightlyOptions, timers, nightlyJobs, lastNightly, utcDay>>

\* precomputeAll of an admin request settles and the response is sent.
AdminSettles(ok) ==
  /\ adminJobs > 0
  /\ adminJobs' = adminJobs - 1
  /\ UNCHANGED <<now, nightlyOptions, timers, nightlyJobs, lastNightly, utcDay>>

\* Nothing started since 00:00 UTC.  starts counts the timer callbacks that
\* started since then, carried tells that the pending timer was due on an
\* earlier day, late that a callback started today belonged to such a timer.
NewDay(carried) == [starts |-> 0, late |-> FALSE, carried |-> carried]

\* One clock step: the time of day moves on and every pending timer has one
\* step less to wait; a timer that is due may still be waiting for its turn.
DayTick ==
  /\ now' = (now + 1) % DayTicks
  /\ timers' = [i \in DOMAIN timers |-> Max(0, timers[i] - 1)]
  /\ utcDay' = IF now' = 0 THEN NewDay(\E i \in DOMAIN timers : timers[i] = 0) ELSE utcDay
  /\ UNCHANGED <<nightlyOptions, nightlyJobs, adminJobs, lastNightly>>

\* bootstrap(): startNightlyPrecompute is called once, when
\* PRECOMPUTE_NIGHTLY_ENABLED is set, and calls scheduleNext().
SchedulerInit ==
  /\ nightlyOptions \in [enabled : BOOLEAN, hourUtc : (0 - 1)..HoursPerDay]
  /\ timers = IF nightlyOptions.enabled THEN scheduleNext(<<>>) ELSE <<>>
  /\ nightlyJobs = 0
  /\ adminJobs = 0
  /\ lastNightly = "none"
  /\ utcDay = NewDay(FALSE)

\* A process without the nightly scheduler and without admin requests.
SchedRest ==
  /\ nightlyOptions = [enabled |-> FALSE, hourUtc |-> 0]
  /\ timers = <<>>
  /\ nightlyJobs = 0
  /\ adminJobs = 0
  /\ lastNightly = "none"
  /\ utcDay = NewDay(FALSE)

\* ------------------------------------------------------------------------
\* createMatchupRouter: POST /coach/matchup
\* One request is followed from its arrival to its response.  Each await of
\* the handler is a position: "live" (the Riot lookups under withTimeout),
\* "external" (the external provider under withTimeout), "gemini" (the
\* generateAdvice call inside generateMatchupCoaching).  A lookup is 1 (the
\* primary pair) or 2 (the partner pair of the bot lane); the games of a
\* lookup are 0 when it resolved with null.  liveOutcome is a history field:
\* how the await of the live lookups ended.
\* ------------------------------------------------------------------------
LookupIds == {1, 2}

Lookups(lane) == IF lane = "bot" THEN {1, 2} ELSE {1}

NoGames == [i \in LookupIds |-> 0]

TotalGames(f) == f[1] + f[2]

\* Math.max(1, Math.floor(minSampleGames ?? 10))
requiredSampleGames == Max(1, routerOptions.minSampleGames)

NoRequest ==
  [pc |-> "idle", lane |-> "top", pending |-> {}, got |-> NoGames, timeLeft |-> 0,
   elapsed |-> 0, riotGames |-> NoGames, statsGames |-> NoGames,
   externalGames |-> NoGames, externalStatus |-> "none", liveStatsWarning |-> "",
   status |-> 0, warnings |-> <<>>, generatedWithGemini |-> FALSE, enqueued |-> {},
   gotStatus |-> [i \in LookupIds |-> "none"], liveOutcome |-> "none"]

\* The catch block of the live lookup: the warning chosen from the message.
LiveStatsWarning_TimeoutSilent(message) ==
  IF message = "Riot API 429" THEN "rate_limited"
  ELSE IF message = "Live Riot stats timed out." THEN ""
  ELSE "unavailable"

LiveStatsWarning(message) ==
  IF message = "Riot API 429" THEN "rate_limited"
  ELSE IF message = "Live Riot stats timed out." THEN "timed_out"
  ELSE "unavailable"

\* Promise.all of the withTimeout-wrapped lookups settles with a value only
\* once every lookup has resolved; until then nothing is assigned.
WithResolved(r, i, games) ==
  [r EXCEPT !.got[i] = games, !.pending = @ \ {i}]

\* The tail of the handler after generateMatchupCoaching has returned: the
\* warnings are put in front one after the other, the backfill is enqueued,
\* and the response is sent.  queued tells whether an enqueue was accepted.
Answer(r, gemini, queued) ==
  LET currentSampleSize == TotalGames(r.statsGames)
      hasEnoughSample == currentSampleSize >= requiredSampleGames
      shouldQueueCollection ==
        routerOptions.enableLiveStats /\ TotalGames(r.riotGames) < requiredSampleGames
      usedExternal == \E i \in LookupIds : r.externalGames[i] > 0
      w1 == IF r.liveStatsWarning # "" THEN <<r.liveStatsWarning>> ELSE <<>>
      w2 == IF usedExternal THEN <<"provisional">> \o w1
            ELSE IF r.externalStatus \notin {"none", "success", "cache_hit"}
              THEN <<"external_unavailable">> \o w1
            ELSE w1
      enqueues == shouldQueueCollection /\ routerOptions.missingPairBackfillService
      w3 == IF enqueues /\ (queued \/ ~hasEnoughSample)
              THEN <<IF ~hasEnoughSample THEN "collecting" ELSE "queued">> \o w2
              ELSE w2 IN
  [r EXCEPT !.pc = "answered", !.pending = {}, !.timeLeft = 0, !.status = 200,
            !.warnings = w3, !.generatedWithGemini = gemini,
            !.enqueued = IF enqueues THEN Lookups(r.lane) ELSE {}]

\* generateMatchupCoaching: the Gemini service is passed, and awaited, only
\* when the sample is large enough; otherwise the fallback advice is built
\* without an await.
AfterExternal(r, queued) ==
  IF TotalGames(r.statsGames) >= requiredSampleGames /\ routerOptions.geminiCoachService
    THEN [r EXCEPT !.pc = "gemini", !.pending = {}, !.timeLeft = GeminiTimeoutMs]
    ELSE Answer(r, FALSE, queued)

\* After the try/catch of the live lookup: the external provider is asked
\* when it is configured and the Riot sample is below the required size.
AfterLive(r, queued) ==
  IF routerOptions.externalStatsProvider /\ TotalGames(r.riotGames) < requiredSampleGames
    THEN [r EXCEPT !.pc = "external", !.pending = Lookups(r.lane), !.got = NoGames,
                   !.timeLeft = ExternalTimeoutMs]
    ELSE AfterExternal(r, queued)

\* The request arrives with a valid body.
CoachMatchup(lane, queued) ==
  /\ coachRequest.pc = "idle"
  /\ LET r == [NoRequest EXCEPT !.lane = lane] IN
     coachRequest' =
       IF routerOptions.enableLiveStats
         THEN [r EXCEPT !.pc = "live", !.pending = Lookups(lane), !.timeLeft = LiveTimeoutMs]
         ELSE AfterLive(r, queued)
  /\ UNCHANGED routerOptions

\* riotStatsService.getMatchupStats of lookup i resolves in time.
LiveResolves(i, games, queued) ==
  /\ coachRequest.pc = "live"
  /\ i \in coachRequest.pending
  /\ LET r == WithResolved(coachRequest, i, games) IN
     coachRequest' =
       IF r.pending # {} THEN r
       ELSE AfterLive([r EXCEPT !.riotGames = r.got, !.statsGames = r.got,
                                !.liveOutcome = "resolved"], queued)
  /\ UNCHANGED routerOptions

\* The lookup i rejects in time: Promise.all rejects and the catch block
\* keeps the warning; nothing of the lookups is assigned.
LiveRejects(i, message, queued) ==
  /\ coachRequest.pc = "live"
  /\ i \in coachRequest.pending
  /\ coachRequest' =
       AfterLive([coachRequest EXCEPT !.liveStatsWarning = LiveStatsWarning(message),
                                      !.liveOutcome = "rejected"], queued)
  /\ UNCHANGED routerOptions

\* withTimeout: the timer of a lookup that has not settled rejects the race.
LiveTimesOut(queued) ==
  /\ coachRequest.pc = "live"
  /\ coachRequest.timeLeft = 0
  /\ coachRequest' =
       AfterLive([coachRequest EXCEPT
                    !.liveStatsWarning = LiveStatsWarning("Live Riot stats timed out."),
                    !.liveOutcome = "timed_out"], queued)
  /\ UNCHANGED routerOptions

\* The external statistics replace those of the lookup when they hold more
\* games; the status reported is the one of the first lookup that is neither
\* success nor cache_hit, else the one of the primary lookup.
ExternalTaken(r) ==
  LET used == [i \in LookupIds |-> IF r.got[i] > r.statsGames[i] THEN r.got[i] ELSE 0]
      preferred == IF r.lane = "bot" /\ r.gotStatus[1] \in {"success", "cache_hit"}
                        /\ r.gotStatus[2] \notin {"success", "cache_hit"}
                     THEN r.gotStatus[2] ELSE r.gotStatus[1] IN
  [r EXCEPT !.externalGames = used, !.externalStatus = preferred,
            !.statsGames = [i \in LookupIds |-> IF used[i] > 0 THEN used[i] ELSE @[i]]]

\* externalStatsProvider.getMatchupStats of lookup i resolves in time with
\* an outcome: its status and the games of its statistics (0: none).
ExternalResolves(i, outcome, queued) ==
  /\ coachRequest.pc = "external"
  /\ i \in coachRequest.pending
  /\ LET r == [WithResolved(coachRequest, i, outcome.games) EXCEPT
                 !.gotStatus[i] = outcome.status] IN
     coachRequest' = IF r.pending # {} THEN r ELSE AfterExternal(ExternalTaken(r), queued)
  /\ UNCHANGED routerOptions

\* The external lookup rejects, or its withTimeout timer does: the catch
\* block reports status "timeout".
ExternalFails(queued) ==
  /\ coachRequest.pc = "external"
  /\ coachRequest' = AfterExternal([coachRequest EXCEPT !.externalStatus = "timeout"], queued)
  /\ UNCHANGED routerOptions

\* generateAdvice returns, with advice or with a failure reason (it catches
\* its own errors; its fetches are aborted at their timeout).
GeminiSettles(advice, queued) ==
  /\ coachRequest.pc = "gemini"
  /\ coachRequest.timeLeft = 0 => ~advice
  /\ coachRequest' = Answer(coachRequest, advice, queued)
  /\ UNCHANGED routerOptions

\* Time passes while the handler awaits; a timer that is due fires before
\* more time passes.
CoachTick ==
  /\ coachRequest.pc \in {"live", "external", "gemini"}
  /\ coachRequest.timeLeft > 0
  /\ coachRequest' = [coachRequest EXCEPT !.timeLeft = @ - 1, !.elapsed = @ + 1]
  /\ UNCHANGED routerOptions

\* The messages a live lookup rejects with: a 429 that used up its retries,
\* the client's cooldown, any other error.
LiveErrors == {"Riot API 429", "Riot API cooldown active", "Riot API 500"}

\* What the external provider resolves with.
ExternalOutcomes ==
  { [status |-> "success", games |-> g] : g \in 1..MaxSampleGames } \cup
  { [status |-> s, games |-> 0] : s \in {"http_error", "parse_miss"} }

\* The router as bootstrap builds it.
RouteInit ==
  /\ routerOptions \in [enableLiveStats : BOOLEAN, externalStatsProvider : BOOLEAN,
                        geminiCoachService : BOOLEAN, missingPairBackfillService : BOOLEAN,
                        minSampleGames : 0..MaxSampleGames]
  /\ coachRequest = NoRequest

\* A router that has received no coaching request.
RouteRest ==
  /\ routerOptions = [enableLiveStats |-> FALSE, externalStatsProvider |-> FALSE,
                      geminiCoachService |-> FALSE, missingPairBackfillService |-> FALSE,
                      minSampleGames |-> 1]
  /\ coachRequest = NoRequest

\* ------------------------------------------------------------------------
\* RiotMatchupStatsService.getMatchupStats, as processLoop awaits it
\* ------------------------------------------------------------------------
\* `this.cache.get(cacheKey)` of a key that was never set.
NoCacheEntry == [value |-> NoStats, expiresAt |-> 0]

NoCollection == [key |-> NoKey, source |-> "none", games |-> 0]

\* `cached && cached.expiresAt > now`
CacheHit(entry, nowMs) == entry.value # NoStats /\ entry.expiresAt > nowMs

\* What the Riot API lets a live collection compute: no game of the pair
\* (`if (games === 0) return null`), statistics over one or two games, or a
\* request that rejects.
LiveCollections ==
  { [ok |-> TRUE, stats |-> NoStats], [ok |-> TRUE, stats |-> StatsOne],
    [ok |-> TRUE, stats |-> [StatsTwo EXCEPT !.games = DefaultTargetGames]],
    [ok |-> FALSE, stats |-> NoStats] }

\* The row the crawl job has written for a pair: one game, expired by now.
CrawledRows == { UpsertRow("15.3", "top", StatsOne, 1) }

\* Where getMatchupStats takes its answer from: the unexpired cache entry, the
\* row repository.get returns (`if (persisted)`), or the Riot API.
StatsSource(key, nowMs) ==
  IF CacheHit(statsService.cache[key], nowMs) THEN "cache"
  ELSE IF RepositoryGet(backend, table, key, nowMs) # NoStats THEN "store"
  ELSE "live"

\* `stats?.games ?? 0`
GamesOf(stats) == IF stats = NoStats THEN 0 ELSE stats.games

\* The call processLoop awaits for the key in flight, from its first line to
\* the snapshot written when it settles.  live is what the API would answer.
GetMatchupStats(key, live) ==
  LET source == StatsSource(key, now)
      persisted == RepositoryGet(backend, table, key, now)
      expiresAt == now + StatsCacheTtlMs IN
  /\ key \in inFlight
  /\ CASE source = "cache" ->
            /\ CollectionSettles(key, [ok |-> TRUE,
                                       games |-> GamesOf(statsService.cache[key].value)])
            /\ statsService' = [statsService EXCEPT
                 !.last = [key |-> key, source |-> source,
                           games |-> GamesOf(statsService.cache[key].value)]]
            /\ UNCHANGED storeVars
       [] source = "store" ->
            /\ CollectionSettles(key, [ok |-> TRUE, games |-> GamesOf(persisted)])
            /\ statsService' = [statsService EXCEPT
                 !.cache[key] = [value |-> persisted, expiresAt |-> expiresAt],
                 !.last = [key |-> key, source |-> source, games |-> GamesOf(persisted)]]
            /\ UNCHANGED storeVars
       [] source = "live" ->
            /\ CollectionSettles(key, [ok |-> live.ok, games |-> GamesOf(live.stats)])
            /\ IF live.ok /\ live.stats # NoStats
                 THEN LET stats == [live.stats EXCEPT !.patch = key[1]] IN
                      /\ statsService' = [statsService EXCEPT
                           !.cache[key] = [value |-> stats, expiresAt |-> expiresAt],
                           !.last = [key |-> key, source |-> source, games |-> stats.games]]
                      /\ Upsert([patch |-> key[1], lane |-> key[2], playerChampion |-> key[3],
                                 enemyChampion |-> key[4], stats |-> stats,
                                 expiresAtMs |-> expiresAt])
                 ELSE /\ statsService' = [statsService EXCEPT
                           !.last = [key |-> key, source |-> source, games |-> 0]]
                      /\ UNCHANGED storeVars

ServiceInit ==
  statsService = [cache |-> [k \in BackfillKeys |-> NoCacheEntry], last |-> NoCollection]

ServiceRest == ServiceInit

\* ------------------------------------------------------------------------
\* The live collection of RiotMatchupStatsService.getMatchupStats: its loop
\* over the match ids for one lane and pair
\* ------------------------------------------------------------------------
\* raw.trim().toLowerCase().replace(/[^a-z0-9]/g, "") over the names in use.
championKey(raw) ==
  CASE raw = "A" -> "a"
    [] raw = "B" -> "b"
    [] raw = "Wukong" -> "wukong"
    [] raw = "MonkeyKing" -> "monkeyking"
    [] OTHER -> ""

\* One pass of the loop over matchIds: the `continue` tests, then the sums.
\* acc holds games, wins, totalGoldDiff15, pre6Kills, pre6Deaths, runes and
\* firstItems.
CollectMatch(acc, match, lane, playerChampionKey, enemyChampionKey) ==
  LET lanePlayers == LanePlayers(match, lane) IN
  IF match.status # "ok" \/ Len(lanePlayers) # 2 THEN acc
  ELSE LET one == lanePlayers[1]
           two == lanePlayers[2]
           oneChampionKey == championKey(normalizeChampionName(one.championName))
           twoChampionKey == championKey(normalizeChampionName(two.championName))
           isDirectPair ==
             \/ oneChampionKey = playerChampionKey /\ twoChampionKey = enemyChampionKey
             \/ oneChampionKey = enemyChampionKey /\ twoChampionKey = playerChampionKey
           playerTop == IF oneChampionKey = playerChampionKey THEN one ELSE two
           enemyTop == IF oneChampionKey = enemyChampionKey THEN one ELSE two IN
       IF ~isDirectPair THEN acc
       ELSE [games |-> acc.games + 1,
             wins |-> IF playerTop.win THEN acc.wins + 1 ELSE acc.wins,
             totalGoldDiff15 |->
               IF playerTop.totalGold # Undefined /\ enemyTop.totalGold # Undefined
                 THEN acc.totalGoldDiff15 + (playerTop.totalGold[1] - enemyTop.totalGold[1])
                 ELSE acc.totalGoldDiff15,
             pre6Kills |-> acc.pre6Kills + playerTop.pre6Kills,
             pre6Deaths |-> acc.pre6Deaths + playerTop.pre6Deaths,
             runes |-> IF playerTop.perk # Undefined THEN increment(acc.runes, playerTop.perk[1])
                       ELSE acc.runes,
             items |-> IF playerTop.item0 > 0 THEN increment(acc.items, playerTop.item0)
                       ELSE acc.items]

\* `for (const matchId of matchIds)`, from the zeroed sums.
RECURSIVE CollectMatches(_, _, _, _, _, _)
CollectMatches(acc, ids, i, lane, playerChampion, enemyChampion) ==
  IF i > Len(ids) THEN acc
  ELSE CollectMatches(CollectMatch(acc, matchData[ids[i]], lane, championKey(playerChampion),
                                   championKey(enemyChampion)),
                      ids, i + 1, lane, playerChampion, enemyChampion)

\* ------------------------------------------------------------------------
\* runWithConcurrency(uniqueMatchIds, options.concurrency, handler) of
\* precomputeAll
\* ------------------------------------------------------------------------
Workers_Unclamped(concurrency) == concurrency

\* `Math.max(1, Math.floor(concurrency))`
Workers(concurrency) == Max(1, concurrency)

\* The runWorker calls Promise.all can be given.
WorkerIds == 1..Max(1, MaxConcurrency)

NoWorker == [pc |-> "none", item |-> 0]

\* The lists of match ids the discovery of precomputeAll can end with.
PoolItems == { SubSeq([i \in 1..Cardinality(MatchIds) |-> i], 1, n) : n \in 0..Cardinality(MatchIds) }

\* A runWorker call at its loop test, with the shared index at `index`: it
\* takes the item at the index and awaits its handler, or returns.
RunWorker(items, index) ==
  IF index < Len(items) THEN [pc |-> "awaiting", item |-> index + 1]
  ELSE [pc |-> "done", item |-> 0]

\* runWithConcurrency up to its await of Promise.all: the runWorker calls are
\* made one after the other, each running to its first await.
PoolStart(concurrency, items) ==
  /\ ~pool.started
  /\ LET taken == Min(Workers(concurrency), Len(items)) IN
     pool' = [pool EXCEPT
       !.started = TRUE,
       !.concurrency = concurrency,
       !.items = items,
       !.index = taken,
       !.workers = [w \in WorkerIds |->
                      IF w > Workers(concurrency) THEN NoWorker
                      ELSE RunWorker(items, w - 1)],
       !.handed = SubSeq(items, 1, taken)]

\* The handler worker w awaits settles: the match is aggregated (or the
\* handler returns null), and the worker goes round its loop.
HandlerSettles(w) ==
  LET me == pool.workers[w]
      match == matchData[pool.items[me.item]]
      next == RunWorker(pool.items, pool.index) IN
  /\ pool.started
  /\ me.pc = "awaiting"
  /\ pool' = [pool EXCEPT
       !.buckets = PrecomputeHandler(@, match),
       !.matchesProcessed = IF match.status = "ok" THEN @ + 1 ELSE @,
       !.workers[w] = next,
       !.index = IF next.pc = "awaiting" THEN @ + 1 ELSE @,
       !.handed = IF next.pc = "awaiting" THEN Append(@, pool.items[next.item]) ELSE @]

PoolInit ==
  pool = [started |-> FALSE, concurrency |-> 0, items |-> <<>>, index |-> 0,
          workers |-> [w \in WorkerIds |-> NoWorker], buckets |-> <<>>,
          matchesProcessed |-> 0, handed |-> <<>>]

PoolRest == PoolInit

\* The store of a process that has made no call yet.
StoreRest == StoreInit /\ backend = "sqlite"

\* The job before its first run.
JobRest == JobInit /\ jobOptions = BaseOptions(1) /\ MatchDataInit({ScenarioMatch1})

InitClient ==
  /\ now = 1
  /\ SchedRest
  /\ RouteRest
  /\ ServiceRest
  /\ PoolRest
  /\ ClientInit
  /\ LimiterInit
  /\ BackfillRest
  /\ StoreRest
  /\ JobRest

SpecClient == InitClient /\ [][NextClient]_vars

InitLimiter ==
  /\ now = 1
  /\ SchedRest
  /\ RouteRest
  /\ ServiceRest
  /\ PoolRest
  /\ LimiterInit
  /\ ClientInit
  /\ BackfillRest
  /\ StoreRest
  /\ JobRest

SpecLimiter == InitLimiter /\ [][NextLimiter]_vars

Init ==
  /\ now = 1
  /\ SchedRest
  /\ RouteRest
  /\ ServiceRest
  /\ PoolRest
  /\ BackfillInit
  /\ LimiterInit
  /\ ClientInit
  /\ StoreRest
  /\ JobRest

NextBackfill ==
  \/ /\ \E input \in BackfillRequests : Enqueue(input)
     /\ UNCHANGED <<limiterVars, clientVars, storeVars, jobVars, schedVars, routeVars, serviceVars, poolVars>>
  \/ /\ \E key \in BackfillKeys, result \in CollectionResults : CollectionSettles(key, result)
     /\ UNCHANGED <<limiterVars, clientVars, storeVars, jobVars, schedVars, routeVars, serviceVars, poolVars>>
  \/ /\ Tick(MaxTime)
     /\ UNCHANGED <<backfillVars, limiterVars, clientVars, storeVars, jobVars, schedVars, routeVars, serviceVars, poolVars>>

SpecBackfill == Init /\ [][NextBackfill]_vars

\* The service as the server builds it, with every awaited collection call
\* returning or throwing in the end.
InitBackfillLive ==
  /\ now = 1
  /\ SchedRest
  /\ RouteRest
  /\ ServiceRest
  /\ PoolRest
  /\ BackfillRest
  /\ LimiterInit
  /\ ClientInit
  /\ StoreRest
  /\ JobRest

SpecBackfillLive ==
  /\ InitBackfillLive
  /\ [][NextBackfill]_vars
  /\ WF_vars((\E key \in BackfillKeys, result \in CollectionResults : CollectionSettles(key, result))
               /\ UNCHANGED <<limiterVars, clientVars, storeVars, jobVars, schedVars, routeVars, serviceVars, poolVars>>)


NextStore ==
  \/ /\ \E row \in UpsertInputs : Upsert(row)
     /\ UNCHANGED <<now, backfillVars, limiterVars, clientVars, jobVars, schedVars, routeVars, serviceVars, poolVars>>
  \/ /\ \E key \in StoreKeys, nowMs \in 0..MaxNowMs : Get(key, nowMs)
     /\ UNCHANGED <<now, backfillVars, limiterVars, clientVars, jobVars, schedVars, routeVars, serviceVars, poolVars>>
  \/ /\ \E lane \in {Undefined, <<"top">>}, nowMs \in 0..MaxNowMs :
          GetCacheOverview(Patch, lane, nowMs)
     /\ UNCHANGED <<now, backfillVars, limiterVars, clientVars, jobVars, schedVars, routeVars, serviceVars, poolVars>>
  \/ /\ \E f \in Flushers, rows \in RowBatches : UpsertManyCall(f, rows)
     /\ UNCHANGED <<now, backfillVars, limiterVars, clientVars, jobVars, schedVars, routeVars, serviceVars, poolVars>>
  \/ /\ \E f \in Flushers, ok \in BOOLEAN : UpsertManyRow(f, ok)
     /\ UNCHANGED <<now, backfillVars, limiterVars, clientVars, jobVars, schedVars, routeVars, serviceVars, poolVars>>
  \/ /\ \E f \in Flushers, ok \in BOOLEAN : UpsertManyCommit(f, ok)
     /\ UNCHANGED <<now, backfillVars, limiterVars, clientVars, jobVars, schedVars, routeVars, serviceVars, poolVars>>

InitStore ==
  /\ now = 1
  /\ SchedRest
  /\ RouteRest
  /\ ServiceRest
  /\ PoolRest
  /\ StoreInit
  /\ JobRest
  /\ BackfillRest
  /\ LimiterInit
  /\ ClientInit

SpecStore == InitStore /\ [][NextStore]_vars

\* The writers of the store alone: callers of upsert and of upsertMany.
NextWrites ==
  \/ /\ \E row \in UpsertInputs : Upsert(row)
     /\ UNCHANGED <<now, backfillVars, limiterVars, clientVars, jobVars, schedVars, routeVars, serviceVars, poolVars>>
  \/ /\ \E f \in Flushers, rows \in RowBatches : UpsertManyCall(f, rows)
     /\ UNCHANGED <<now, backfillVars, limiterVars, clientVars, jobVars, schedVars, routeVars, serviceVars, poolVars>>
  \/ /\ \E f \in Flushers, ok \in BOOLEAN : UpsertManyRow(f, ok)
     /\ UNCHANGED <<now, backfillVars, limiterVars, clientVars, jobVars, schedVars, routeVars, serviceVars, poolVars>>
  \/ /\ \E f \in Flushers, ok \in BOOLEAN : UpsertManyCommit(f, ok)
     /\ UNCHANGED <<now, backfillVars, limiterVars, clientVars, jobVars, schedVars, routeVars, serviceVars, poolVars>>

SpecWrites == InitStore /\ [][NextWrites]_vars

\* One run of the bulk job that nothing interrupts, over any answers of the API.

NextJobRun ==
  \/ /\ JobStart(jobOptions) /\ runs = 0
     /\ UNCHANGED <<now, backfillVars, limiterVars, clientVars, schedVars, routeVars, serviceVars, poolVars>>
  \/ /\ JobFetchMatchIds(TRUE, "written")
     /\ UNCHANGED <<now, backfillVars, limiterVars, clientVars, schedVars, routeVars, serviceVars, poolVars>>
  \/ /\ JobQueueMatches("written")
     /\ UNCHANGED <<now, backfillVars, limiterVars, clientVars, schedVars, routeVars, serviceVars, poolVars>>
  \/ /\ JobProcessMatch("written")
     /\ UNCHANGED <<now, backfillVars, limiterVars, clientVars, schedVars, routeVars, serviceVars, poolVars>>
  \/ /\ JobFlush
     /\ UNCHANGED <<now, backfillVars, limiterVars, clientVars, schedVars, routeVars, serviceVars, poolVars>>
  \/ /\ JobFlushRow(TRUE)
     /\ UNCHANGED <<now, backfillVars, limiterVars, clientVars, schedVars, routeVars, serviceVars, poolVars>>
  \/ /\ JobFlushCommit(TRUE)
     /\ UNCHANGED <<now, backfillVars, limiterVars, clientVars, schedVars, routeVars, serviceVars, poolVars>>
  \/ /\ JobFinish(TRUE)
     /\ UNCHANGED <<now, backfillVars, limiterVars, clientVars, schedVars, routeVars, serviceVars, poolVars>>

InitJobRun ==
  /\ now = 1
  /\ SchedRest
  /\ RouteRest
  /\ ServiceRest
  /\ PoolRest
  /\ JobInit
  /\ MatchDataInit(MatchInputs)
  /\ StoreInit
  /\ BackfillRest
  /\ LimiterInit
  /\ ClientInit

SpecJobRun == InitJobRun /\ [][NextJobRun]_vars

\* Runs of the bulk job that fail, are killed and are started again.

NextJob ==
  \/ /\ \E opts \in RunOptions(jobOptions) : JobStart(opts)
     /\ UNCHANGED <<now, backfillVars, limiterVars, clientVars, schedVars, routeVars, serviceVars, poolVars>>
  \/ /\ \E ok \in BOOLEAN, save \in {"written", "torn"} : JobFetchMatchIds(ok, save)
     /\ UNCHANGED <<now, backfillVars, limiterVars, clientVars, schedVars, routeVars, serviceVars, poolVars>>
  \/ /\ \E save \in {"written", "torn"} : JobQueueMatches(save)
     /\ UNCHANGED <<now, backfillVars, limiterVars, clientVars, schedVars, routeVars, serviceVars, poolVars>>
  \/ /\ \E save \in {"written", "torn"} : JobProcessMatch(save)
     /\ UNCHANGED <<now, backfillVars, limiterVars, clientVars, schedVars, routeVars, serviceVars, poolVars>>
  \/ /\ JobFlush
     /\ UNCHANGED <<now, backfillVars, limiterVars, clientVars, schedVars, routeVars, serviceVars, poolVars>>
  \/ /\ \E ok \in BOOLEAN : JobFlushRow(ok)
     /\ UNCHANGED <<now, backfillVars, limiterVars, clientVars, schedVars, routeVars, serviceVars, poolVars>>
  \/ /\ \E ok \in BOOLEAN : JobFlushCommit(ok)
     /\ UNCHANGED <<now, backfillVars, limiterVars, clientVars, schedVars, routeVars, serviceVars, poolVars>>
  \/ /\ \E unlinked \in BOOLEAN : JobFinish(unlinked)
     /\ UNCHANGED <<now, backfillVars, limiterVars, clientVars, schedVars, routeVars, serviceVars, poolVars>>
  \/ /\ JobKill
     /\ UNCHANGED <<now, backfillVars, limiterVars, clientVars, schedVars, routeVars, serviceVars, poolVars>>

InitJob ==
  /\ now = 1
  /\ SchedRest
  /\ RouteRest
  /\ ServiceRest
  /\ PoolRest
  /\ JobInit
  /\ MatchDataInit(JobMatchInputs)
  /\ StoreInit
  /\ BackfillRest
  /\ LimiterInit
  /\ ClientInit

SpecJob == InitJob /\ [][NextJob]_vars

\* The same runs over one fixed set of answers with a pairing in every match,
\* for the properties of starting and ending a run.
InitJobFixed ==
  /\ now = 1
  /\ SchedRest
  /\ RouteRest
  /\ ServiceRest
  /\ PoolRest
  /\ JobInit
  /\ matchData = [id \in MatchIds |-> IF id % 2 = 1 THEN ScenarioMatch1 ELSE TwoLaneMatch]
  /\ StoreInit
  /\ BackfillRest
  /\ LimiterInit
  /\ ClientInit

SpecJobFixed == InitJobFixed /\ [][NextJob]_vars

\* The scheduler and the admin route of one server process.
NextScheduler ==
  \/ /\ \E i \in DOMAIN timers : TimerFires(i)
     /\ UNCHANGED <<backfillVars, limiterVars, clientVars, storeVars, jobVars, routeVars, serviceVars, poolVars>>
  \/ /\ \E ok \in BOOLEAN : NightlySettles(ok)
     /\ UNCHANGED <<backfillVars, limiterVars, clientVars, storeVars, jobVars, routeVars, serviceVars, poolVars>>
  \/ /\ AdminPrecompute
     /\ UNCHANGED <<backfillVars, limiterVars, clientVars, storeVars, jobVars, routeVars, serviceVars, poolVars>>
  \/ /\ \E ok \in BOOLEAN : AdminSettles(ok)
     /\ UNCHANGED <<backfillVars, limiterVars, clientVars, storeVars, jobVars, routeVars, serviceVars, poolVars>>
  \/ /\ DayTick
     /\ UNCHANGED <<backfillVars, limiterVars, clientVars, storeVars, jobVars, routeVars, serviceVars, poolVars>>

InitScheduler ==
  /\ now \in 0..(DayTicks - 1)
  /\ SchedulerInit
  /\ RouteRest
  /\ ServiceRest
  /\ PoolRest
  /\ BackfillRest
  /\ LimiterInit
  /\ ClientInit
  /\ StoreRest
  /\ JobRest

SpecScheduler == InitScheduler /\ [][NextScheduler]_vars

\* Time passes, a due timer gets its turn, and a precomputeAll call settles.
SpecSchedulerLive ==
  /\ SpecScheduler
  /\ WF_vars(DayTick
               /\ UNCHANGED <<backfillVars, limiterVars, clientVars, storeVars, jobVars, routeVars, serviceVars, poolVars>>)
  /\ WF_vars((\E i \in DOMAIN timers : TimerFires(i))
               /\ UNCHANGED <<backfillVars, limiterVars, clientVars, storeVars, jobVars, routeVars, serviceVars, poolVars>>)
  /\ WF_vars((\E ok \in BOOLEAN : NightlySettles(ok))
               /\ UNCHANGED <<backfillVars, limiterVars, clientVars, storeVars, jobVars, routeVars, serviceVars, poolVars>>)

\* One coaching request against a router of any configuration.
NextCoach ==
  \/ /\ \E lane \in {"top", "bot"}, queued \in BOOLEAN : CoachMatchup(lane, queued)
     /\ UNCHANGED <<now, backfillVars, limiterVars, clientVars, storeVars, jobVars, schedVars, serviceVars, poolVars>>
  \/ /\ \E i \in LookupIds, games \in 0..MaxSampleGames, queued \in BOOLEAN :
          LiveResolves(i, games, queued)
     /\ UNCHANGED <<now, backfillVars, limiterVars, clientVars, storeVars, jobVars, schedVars, serviceVars, poolVars>>
  \/ /\ \E i \in LookupIds, message \in LiveErrors, queued \in BOOLEAN :
          LiveRejects(i, message, queued)
     /\ UNCHANGED <<now, backfillVars, limiterVars, clientVars, storeVars, jobVars, schedVars, serviceVars, poolVars>>
  \/ /\ \E queued \in BOOLEAN : LiveTimesOut(queued)
     /\ UNCHANGED <<now, backfillVars, limiterVars, clientVars, storeVars, jobVars, schedVars, serviceVars, poolVars>>
  \/ /\ \E i \in LookupIds, outcome \in ExternalOutcomes, queued \in BOOLEAN :
          ExternalResolves(i, outcome, queued)
     /\ UNCHANGED <<now, backfillVars, limiterVars, clientVars, storeVars, jobVars, schedVars, serviceVars, poolVars>>
  \/ /\ \E queued \in BOOLEAN : ExternalFails(queued)
     /\ UNCHANGED <<now, backfillVars, limiterVars, clientVars, storeVars, jobVars, schedVars, serviceVars, poolVars>>
  \/ /\ \E advice \in BOOLEAN, queued \in BOOLEAN : GeminiSettles(advice, queued)
     /\ UNCHANGED <<now, backfillVars, limiterVars, clientVars, storeVars, jobVars, schedVars, serviceVars, poolVars>>
  \/ /\ CoachTick
     /\ UNCHANGED <<now, backfillVars, limiterVars, clientVars, storeVars, jobVars, schedVars, serviceVars, poolVars>>

InitCoach ==
  /\ now = 1
  /\ RouteInit
  /\ ServiceRest
  /\ PoolRest
  /\ SchedRest
  /\ BackfillRest
  /\ LimiterInit
  /\ ClientInit
  /\ StoreRest
  /\ JobRest

SpecCoach == InitCoach /\ [][NextCoach]_vars

\* Time passes, a due timer fires, and the Gemini call returns.
SpecCoachLive ==
  /\ SpecCoach
  /\ WF_vars(CoachTick
               /\ UNCHANGED <<now, backfillVars, limiterVars, clientVars, storeVars, jobVars, schedVars, serviceVars, poolVars>>)
  /\ WF_vars((\E queued \in BOOLEAN : LiveTimesOut(queued))
               /\ UNCHANGED <<now, backfillVars, limiterVars, clientVars, storeVars, jobVars, schedVars, serviceVars, poolVars>>)
  /\ WF_vars((\E queued \in BOOLEAN : ExternalFails(queued))
               /\ UNCHANGED <<now, backfillVars, limiterVars, clientVars, storeVars, jobVars, schedVars, serviceVars, poolVars>>)
  /\ WF_vars((\E advice \in BOOLEAN, queued \in BOOLEAN : GeminiSettles(advice, queued))
               /\ UNCHANGED <<now, backfillVars, limiterVars, clientVars, storeVars, jobVars, schedVars, serviceVars, poolVars>>)

\* The backfill worker of a server: its collections go through
\* getMatchupStats, and the crawl job and the precompute write the same store.
NextCollect ==
  \/ /\ \E input \in BackfillRequests : Enqueue(input)
     /\ UNCHANGED <<limiterVars, clientVars, storeVars, jobVars, schedVars, routeVars, serviceVars, poolVars>>
  \/ /\ \E key \in BackfillKeys, live \in LiveCollections : GetMatchupStats(key, live)
     /\ UNCHANGED <<limiterVars, clientVars, jobVars, schedVars, routeVars, poolVars>>
  \/ /\ \E row \in CrawledRows : Upsert(row)
     /\ UNCHANGED <<now, backfillVars, limiterVars, clientVars, jobVars, schedVars, routeVars,
                    serviceVars, poolVars>>
  \/ /\ Tick(MaxTime)
     /\ UNCHANGED <<backfillVars, limiterVars, clientVars, storeVars, jobVars, schedVars, routeVars, serviceVars, poolVars>>

InitCollect ==
  /\ now = 1
  /\ SchedRest
  /\ RouteRest
  /\ ServiceInit
  /\ PoolRest
  /\ BackfillRest
  /\ LimiterInit
  /\ ClientInit
  /\ StoreInit
  /\ JobRest

SpecCollect == InitCollect /\ [][NextCollect]_vars

\* One call of precomputeAll in its processing phase, over every answer of
\* the API for the match ids.
NextPool ==
  \/ /\ \E concurrency \in 0..MaxConcurrency, items \in PoolItems : PoolStart(concurrency, items)
     /\ UNCHANGED <<now, backfillVars, limiterVars, clientVars, storeVars, jobVars, schedVars, routeVars, serviceVars>>
  \/ /\ \E w \in WorkerIds : HandlerSettles(w)
     /\ UNCHANGED <<now, backfillVars, limiterVars, clientVars, storeVars, jobVars, schedVars, routeVars, serviceVars>>

InitPool ==
  /\ now = 1
  /\ SchedRest
  /\ RouteRest
  /\ ServiceRest
  /\ PoolInit
  /\ BackfillRest
  /\ LimiterInit
  /\ ClientInit
  /\ StoreRest
  /\ JobInit
  /\ jobOptions = BaseOptions(1)
  /\ MatchDataInit(MatchInputs \cup {GankedMatch})

SpecPool == InitPool /\ [][NextPool]_vars

\* ------------------------------------------------------------------------
\* Claims about the backfill queue
\* ------------------------------------------------------------------------

\* C1: after an enqueue for a pair has been accepted, a second enqueue for the
\* same pair made before that item has finished being processed (the pair is
\* still waiting in the queue or is the one being processed) returns
\* {queued: false, reason: "already_queued"}.
C1_SecondEnqueueIsAlreadyQueued ==
  [][\A input \in BackfillRequests :
       (/\ Enqueue(input)
        /\ (keyOf(input) \in queuedKeys \/ currentKey = keyOf(input)))
       => (~lastEnqueue'.queued /\ lastEnqueue'.reason = "already_queued")]_vars

\* C2: an enqueue for a pair issued after an attempt for that pair has
\* completed and before the cooldown has elapsed since that completion returns
\* {queued: false, reason: "cooldown"} and adds nothing to the queue.
C2_EnqueueAfterAttemptIsCooldown ==
  [][\A input \in BackfillRequests :
       (/\ Enqueue(input)
        /\ attemptEndedAt[keyOf(input)] # 0
        /\ keyOf(input) \notin queuedKeys /\ currentKey # keyOf(input)
        /\ now - attemptEndedAt[keyOf(input)] < options.cooldownMs)
       => (/\ ~lastEnqueue'.queued /\ lastEnqueue'.reason = "cooldown"
           /\ queue' = queue /\ acceptedOrder' = acceptedOrder)]_vars

\* C10: at every moment at most one pair is being collected, and the accepted
\* items start processing in exactly the order in which they were accepted.
IsPrefix(s, t) == Len(s) <= Len(t) /\ SubSeq(t, 1, Len(s)) = s

C10_SerialFifo ==
  /\ Cardinality(inFlight) <= 1
  /\ IsPrefix(startedOrder, acceptedOrder)
  /\ inFlight = IF currentKey = NoKey THEN {} ELSE {currentKey}

\* The worker is busy with the second item it started while a third one waits.
C10_Witness ==
  /\ Len(startedOrder) >= 2
  /\ Len(queue) >= 1
  /\ Cardinality(inFlight) = 1
  /\ startedOrder[1] # startedOrder[2]


\* ------------------------------------------------------------------------
\* Claims about the rate limiter
\* ------------------------------------------------------------------------
GrantsIn(from, to) == Cardinality({ i \in DOMAIN grants : from < grants[i] /\ grants[i] <= to })

\* C3: for any number of concurrent callers of acquire, no sliding window of
\* the length of the short window contains more granted calls than the short
\* window's ceiling, and no sliding window of the length of the long window
\* contains more than the long window's ceiling.
C3_WindowCeilings ==
  \A t \in 0..now :
    /\ GrantsIn(t - OneSecondMs, t) <= OneSecondLimit
    /\ GrantsIn(t - TwoMinuteMs, t) <= TwoMinuteLimit

\* Both ceilings have been reached: a caller sleeps on a full short window,
\* and the long window filled up over more than one short window.
C3_Witness ==
  /\ \E c \in Callers : callers[c].pc = "sleeping"
  /\ GrantsIn(now - OneSecondMs, now) = OneSecondLimit
  /\ GrantsIn(now - TwoMinuteMs, now) = TwoMinuteLimit
  /\ Len(grants) > TwoMinuteLimit

\* ------------------------------------------------------------------------
\* Claims about the API client
\* ------------------------------------------------------------------------

\* C9: once a 429 response has put the client into cooldown, then until the
\* cooldown expires every call fails with the "cooldown active" error and the
\* client hands no request to the network, retries of the call that got the
\* 429 and calls already waiting in the request queue included.
C9_NoNetworkDuringCooldown ==
  [][now < cooldownUntilMs =>
       /\ fetchLog' = fetchLog
       /\ \A c \in CallIds : CallRequest(c) => calls'[c].result = "cooldown_active"]_vars
\* ------------------------------------------------------------------------
\* Claims about the statistics store
\* ------------------------------------------------------------------------

\* C6: once an upsert call for a key has completed, get for that key returns
\* the stats of that call until the key is written again, on either backend
\* and whatever the row's expiry.
C6_GetReturnsLastUpsert ==
  \A key \in StoreKeys :
    lastUpsert[key] # NoStats
      => \A nowMs \in 0..MaxNowMs :
           RepositoryGet(backend, table, key, nowMs) = lastUpsert[key]

\* C7: getCacheOverview counts every row of the patch (and lane) with
\* expiresAt <= now as stale and not fresh, every row with now < expiresAt as
\* fresh, and the total is the sum of the two.
C7_FreshnessCounts ==
  [][(lastCall' # lastCall /\ lastCall'.op = "getCacheOverview")
       => LET patch == lastCall'.args[1]
              lane == lastCall'.args[2]
              nowMs == lastCall'.args[3]
              rows == { r \in table : r.patch = patch /\ (lane = Undefined \/ r.lane = lane[1]) }
              result == lastCall'.result IN
          /\ result.staleCount = Cardinality({ r \in rows : r.expires_at <= nowMs })
          /\ result.freshCount = Cardinality({ r \in rows : nowMs < r.expires_at })
          /\ result.totalCount = result.freshCount + result.staleCount
          /\ result.totalCount = Cardinality(rows)]_vars

\* An overview over fresh rows, stale rows and a row expiring at the very
\* time asked about, with rows of another lane and patch in the table.
C7_Witness ==
  /\ lastCall.op = "getCacheOverview"
  /\ lastCall.result = CacheOverview(backend, table, lastCall.args[1], lastCall.args[2], lastCall.args[3])
  /\ lastCall.args[2] = <<"top">>
  /\ lastCall.result.staleCount = 1
  /\ lastCall.result.totalCount = 1
  /\ \E r \in table : r.patch = lastCall.args[1] /\ r.lane = "top" /\ r.expires_at = lastCall.args[3]
  /\ \E r \in table : r.patch # lastCall.args[1]
  /\ \E r \in table : r.lane = "mid"
\* ------------------------------------------------------------------------
\* Claims about the bulk crawl job
\* ------------------------------------------------------------------------

\* The buckets of a run over the given ids that nothing interrupts.
RECURSIVE FoldMatches(_, _, _)
FoldMatches(map, ids, i) ==
  IF i > Len(ids) THEN map
  ELSE FoldMatches(ProcessMatchBuckets(map, matchData[ids[i]]), ids, i + 1)

\* C4: a run that took over the checkpoint of an interrupted run with the
\* same parameters ends with the bucket map of an uninterrupted run over the
\* same match ids and per-match data.
C4_ResumeYieldsSameBuckets ==
  (jobExit = "done" /\ resumedFrom # NoCheckpoint /\ resumedFrom.phase = "matches")
    => /\ uniqueMatchIds = resumedFrom.uniqueMatchIds
       /\ buckets = FoldMatches(<<>>, uniqueMatchIds, 1)

\* A finished run that took over a checkpoint written inside the processing
\* phase, with buckets in it and matches left to handle.
C4_Witness ==
  /\ jobExit = "done"
  /\ resumedFrom # NoCheckpoint
  /\ resumedFrom.phase = "matches"
  /\ resumedFrom.nextMatchIndex > 0
  /\ resumedFrom.nextMatchIndex < Len(resumedFrom.uniqueMatchIds)
  /\ resumedFrom.buckets # <<>>
  /\ Len(buckets) > Len(resumedFrom.buckets)
\* ------------------------------------------------------------------------
\* Claims about the aggregator and the finalization
\* ------------------------------------------------------------------------
ChampionNames == {"A", "B", "Wukong"}
LaneSet == { Lanes[i] : i \in DOMAIN Lanes }

BucketOf(map, key) == MapGet(map, key, EmptyBucket)

ChangedKeys(old, new) ==
  { key \in MapKeys(old) \cup MapKeys(new) : BucketOf(old, key) # BucketOf(new, key) }

\* The match the next pass of the processing loop handles.
NextMatch == matchData[uniqueMatchIds[nextMatchIndex + 1]]

\* In the lane pairing of the match that is aggregated, a has won against b.
Beats(match, lane, a, b) ==
  /\ match.status = "ok"
  /\ LaneIsAggregated(match, lane)
  /\ \E i, j \in 1..2 :
       LET winner == LanePlayers(match, lane)[i]
           loser == LanePlayers(match, lane)[j] IN
       /\ normalizeChampionName(winner.championName) = a /\ winner.win
       /\ normalizeChampionName(loser.championName) = b /\ ~loser.win

\* What a pairing won by a against b does to its two buckets.
PairingCounted(old, new, lane, a, b) ==
  /\ BucketOf(new, BucketKey(lane, a, b)).games = BucketOf(old, BucketKey(lane, a, b)).games + 1
  /\ BucketOf(new, BucketKey(lane, a, b)).wins = BucketOf(old, BucketKey(lane, a, b)).wins + 1
  /\ BucketOf(new, BucketKey(lane, b, a)).games = BucketOf(old, BucketKey(lane, b, a)).games + 1
  /\ BucketOf(new, BucketKey(lane, b, a)).wins = BucketOf(old, BucketKey(lane, b, a)).wins

\* C5 as stated: processing an accepted match in which a beats b in a lane
\* changes the buckets (lane, a, b) and (lane, b, a) as above and no other
\* bucket at all.
C5_ExactlyTwoBuckets ==
  [][JobProcessMatch("written")
       => \A lane \in LaneSet, a, b \in ChampionNames :
            Beats(NextMatch, lane, a, b)
              => /\ PairingCounted(buckets, buckets', lane, a, b)
                 /\ ChangedKeys(buckets, buckets')
                      = {BucketKey(lane, a, b), BucketKey(lane, b, a)}]_vars

\* C5: processing an accepted match changes, for every lane in which a beats
\* b, the buckets (lane, a, b) by games+1, wins+1 and (lane, b, a) by games+1,
\* wins+0, and it changes no bucket other than the two of each such pairing.
C5_TwoBucketsPerPairing ==
  [][JobProcessMatch("written")
       => /\ \A lane \in LaneSet, a, b \in ChampionNames :
               Beats(NextMatch, lane, a, b) => PairingCounted(buckets, buckets', lane, a, b)
          /\ ChangedKeys(buckets, buckets')
               = UNION { {BucketKey(lane, a, b), BucketKey(lane, b, a)} :
                         <<lane, a, b>> \in { t \in LaneSet \X ChampionNames \X ChampionNames :
                                               Beats(NextMatch, t[1], t[2], t[3]) } }]_vars

\* The loop has just aggregated a match with pairings in two lanes on top of
\* buckets that existed before.
C5_Witness ==
  /\ jobPc = "matches"
  /\ nextMatchIndex > 1
  /\ matchData[uniqueMatchIds[nextMatchIndex]] = TwoLaneMatch
  /\ BucketOf(buckets, BucketKey("top", "A", "B")).games > 1
  /\ BucketOf(buckets, BucketKey("top", "A", "B")).wins
       > BucketOf(buckets, BucketKey("top", "B", "A")).wins
  /\ BucketOf(buckets, BucketKey("mid", "B", "A")).wins = 1
  /\ BucketOf(buckets, BucketKey("mid", "A", "B")).wins = 0

\* The matches of the work list that count for (top, A, B).
ScenarioIds ==
  { i \in DOMAIN uniqueMatchIds :
      MapHas(ProcessMatchBuckets(<<>>, matchData[uniqueMatchIds[i]]), BucketKey("top", "A", "B")) }

\* The work list holds the three matches of the scenario for (top, A, B) and
\* nothing else that counts for the pair.
ScenarioRun ==
  /\ Cardinality(ScenarioIds) = 3
  /\ { matchData[uniqueMatchIds[i]] : i \in ScenarioIds }
       = {ScenarioMatch1, ScenarioMatch2, ScenarioMatch3}

\* C8: three matches for (top, A, B) with gold differentials +300, -100, -200
\* and outcomes win, win, loss finalize to games 3, win rate 0.667 and gold
\* differential 0 in the stored record.
C8_ScenarioFinalizes ==
  (jobExit = "done" /\ ScenarioRun)
    => LET stats == RepositoryGet(backend, table, <<Patch, "top", "A", "B">>, now) IN
       /\ stats # NoStats
       /\ stats.games = 3
       /\ stats.winRate = 667
       /\ stats.goldDiff15 = 0
       /\ stats = FinalizeStats(BucketOf(buckets, BucketKey("top", "A", "B")), now)

C8_Witness ==
  /\ jobExit = "done"
  /\ ScenarioRun
  /\ matchesProcessed >= 3
  /\ BucketOf(buckets, BucketKey("top", "A", "B")).totalGoldDiff15 = 0
  /\ BucketOf(buckets, BucketKey("top", "A", "B")).wins = 2
  /\ \E r \in table : ConflictKey(r) = <<Patch, "top", "A", "B">>

\* ------------------------------------------------------------------------
\* C11  Backfill snapshot transitions.  The snapshot of a pair changes state
\* only along queued -> processing -> {complete, partial, error}; a missing or
\* terminal snapshot becomes queued only by an accepted enqueue of the pair
\* (when the worker is idle the same synchronous call also takes the request
\* up, so the step ends in processing); and an attempt that resolves ends in
\* complete exactly when the observed games reach the target.
\* ------------------------------------------------------------------------
TerminalStates == {"complete", "partial", "error"}

AcceptedEnqueueOf(key) ==
  /\ acceptedOrder' = Append(acceptedOrder, key)
  /\ lastEnqueue'.key = key
  /\ lastEnqueue'.queued

C11_SnapshotTransitions ==
  [][\A key \in BackfillKeys :
       LET s == snapshots[key].state
           t == snapshots'[key].state IN
       /\ s # t =>
            \/ s \in TerminalStates \cup {"absent"} /\ t \in {"queued", "processing"}
                 /\ AcceptedEnqueueOf(key)
            \/ s = "queued" /\ t = "processing"
            \/ s = "processing" /\ t \in TerminalStates
       /\ \A result \in CollectionResults :
            (result.ok /\ CollectionSettles(key, result)) =>
              /\ snapshots'[key].latestGames = result.games
              /\ snapshots'[key].state = "complete"
                   <=> result.games >= snapshots[key].targetGames]_vars

\* A pair that reached its target (complete, with the default target) has
\* been accepted again and waits as queued behind another pair in process.
C11_Witness ==
  \E key \in BackfillKeys :
    /\ snapshots[key].state = "queued"
    /\ attemptEndedAt[key] > 0
    /\ snapshots[key].latestGames = DefaultTargetGames
    /\ snapshots[key].targetGames = DefaultTargetGames
    /\ currentKey # NoKey /\ currentKey # key

\* ------------------------------------------------------------------------
\* C12  Backfill failures are contained.  When the collection of an item
\* rejects, the snapshot of the pair becomes error, the result already
\* returned by enqueue is untouched, and the worker goes on: it takes up the
\* oldest queued request in the same step, or leaves the loop with the
\* processing flag cleared so that a later enqueue starts it again.
\* ------------------------------------------------------------------------
C12_FailureContained ==
  [][\A key \in BackfillKeys :
       CollectionSettles(key, [ok |-> FALSE, games |-> 0]) =>
         /\ snapshots'[key].state = "error"
         /\ snapshots'[key].latestGames = snapshots[key].latestGames
         /\ lastEnqueue' = lastEnqueue
         /\ key \notin inFlight'
         /\ IF queue # <<>>
              THEN /\ currentKey' = keyOf(Head(queue))
                   /\ currentKey' \in inFlight'
                   /\ snapshots'[currentKey'].state = "processing"
                   /\ queue' = Tail(queue)
                   /\ processing'
              ELSE /\ currentKey' = NoKey
                   /\ ~processing'
                   /\ queue' = <<>>]_vars

\* A failed attempt is recorded as error and the request queued behind it is
\* in process, taken up at the moment the failed attempt ended.
C12_Witness ==
  \E key \in BackfillKeys :
    /\ snapshots[key].state = "error"
    /\ attemptEndedAt[key] > 0
    /\ currentKey # NoKey /\ currentKey # key
    /\ snapshots[currentKey].state = "processing"
    /\ lastAttemptAt[currentKey] = attemptEndedAt[key]
    /\ Len(startedOrder) = 2 /\ startedOrder[1] = key /\ startedOrder[2] = currentKey
    /\ lastEnqueue.key = currentKey /\ lastEnqueue.queued

\* ------------------------------------------------------------------------
\* C13  upsertMany commits in chunks of ChunkSize rows, each atomically, on
\* both backends.  When a statement of upsertMany is rejected (a row or the
\* COMMIT), the rows the failing chunk has written are undone: under each of
\* their keys the table holds again what the row had replaced; and every row
\* of an earlier chunk stays in the table, unless a later write on its key
\* has replaced it.
\* ------------------------------------------------------------------------
RowsAt(tbl, key) == { r \in tbl : ConflictKey(r) = key }

\* The index of the row whose statement, or whose chunk's COMMIT, failed.
FailedIndex(me) == IF me.next <= me.chunkEnd THEN me.next ELSE me.chunkEnd

ChunkStartOf(index) == ((index - 1) \div ChunkSize) * ChunkSize + 1

UpsertManyFails(f) ==
  /\ flushers[f].pc = "rows"
  /\ flushers'[f].pc = "idle"
  /\ flushers'[f].outcome = "error"

C13_ChunksAreAtomic ==
  [][\A f \in Flushers :
       UpsertManyFails(f) =>
         LET me == flushers[f]
             first == ChunkStartOf(FailedIndex(me))
             offset == me.next - 1 - Len(me.replaced)
             KeyOf(i) == RowKey(me.rows[i]) IN
         /\ \A i \in first..(me.next - 1) :
              RowsAt(table', KeyOf(i)) = me.replaced[i - offset]
         /\ \A i \in 1..(first - 1) :
              \/ StoredRow(backend, me.rows[i]) \in table'
              \/ KeyOf(i) \in DOMAIN lastUpsert /\ lastUpsert[KeyOf(i)] # NoStats
              \/ \E j \in (i + 1)..(me.next - 1) : KeyOf(j) = KeyOf(i)]_vars

\* ------------------------------------------------------------------------
\* C14  upsert is an idempotent insert-or-replace.  The table never holds two
\* rows with the same (patch, lane, player_champion, enemy_champion); every
\* write statement, of upsert or of upsertMany, leaves under its key exactly
\* the row it wrote and leaves the other keys alone; and an upsert of a row
\* the table already holds leaves the table unchanged.
\* ------------------------------------------------------------------------
OneRowPerKey(tbl) == \A r1, r2 \in tbl : ConflictKey(r1) = ConflictKey(r2) => r1 = r2

\* The table after a statement has written the row stored into tbl.
WrittenInto(tbl, after, stored) ==
  /\ RowsAt(after, ConflictKey(stored)) = {stored}
  /\ { r \in after : ConflictKey(r) # ConflictKey(stored) }
       = { r \in tbl : ConflictKey(r) # ConflictKey(stored) }
  /\ stored \in tbl => after = tbl

C15_ItemFailureIsSkipped ==
  [][/\ jobPc \in {"match_ids", "matches"} => ~(jobPc' = "stopped" /\ jobExit' = "error")
     /\ (/\ jobPc = "matches" /\ jobPc' = "matches"
         /\ nextMatchIndex < Len(uniqueMatchIds)
         /\ nextMatchIndex' # nextMatchIndex
         /\ NextMatch.status = "request_failed")
        => /\ nextMatchIndex' = nextMatchIndex + 1
           /\ buckets' = buckets
           /\ matchesProcessed' = matchesProcessed]_vars

\* ------------------------------------------------------------------------
\* C16  Checkpoint mismatch.  Whatever the checkpoint file holds and
\* whatever run is requested, the locals after the resume block are either
\* untouched (empty buckets, both indices 0, no ids, phase match_ids) or
\* those of the checkpoint, and they are those of the checkpoint only if
\* resuming is on and patch, lanes, player cap and both match caps of the
\* checkpoint equal the requested ones; a run that starts takes exactly
\* these locals, with the players of the league lists when it has none.
\* ------------------------------------------------------------------------
SeqToSet(seq) == { seq[i] : i \in DOMAIN seq }

\* Runs that may be requested over a checkpoint: each parameter differing
\* in turn, the lanes reordered, another checkpoint interval, no resume.
RequestedOption(every, variant) ==
  LET base == BaseOptions(every) IN
  CASE variant = 1 -> base
    [] variant = 2 -> [base EXCEPT !.patch = "15.2"]
    [] variant = 3 -> [base EXCEPT !.lanes = <<"jungle", "top", "mid">>]
    [] variant = 4 -> [base EXCEPT !.lanes = <<"top">>]
    [] variant = 5 -> [base EXCEPT !.maxPlayers = @ - 1]
    [] variant = 6 -> [base EXCEPT !.matchesPerPlayer = @ - 1]
    [] variant = 7 -> [base EXCEPT !.maxUniqueMatches = @ - 1]
    [] OTHER -> [base EXCEPT !.resume = FALSE]

SameParameters(saved, opts) ==
  /\ saved.patch = opts.patch
  /\ SeqToSet(saved.lanes) = SeqToSet(opts.lanes)
  /\ saved.maxPlayers = opts.maxPlayers
  /\ saved.matchesPerPlayer = opts.matchesPerPlayer
  /\ saved.maxUniqueMatches = opts.maxUniqueMatches

TakenFromCheckpoint(locals, file) ==
  /\ locals.phase = file.phase
  /\ locals.puuids = file.puuids
  /\ locals.nextPlayerIndex = file.nextPlayerIndex
  /\ locals.allMatchIds = file.allMatchIds
  /\ locals.uniqueMatchIds = file.uniqueMatchIds
  /\ locals.nextMatchIndex = file.nextMatchIndex
  /\ locals.matchesProcessed = file.matchesProcessed
  /\ serializeBuckets(locals.buckets) = file.buckets

ResumeDecision(opts) ==
  \E locals \in {ResumedLocals(checkpointFile, opts)} :
  LET readable == checkpointFile # NoCheckpoint /\ checkpointFile # TornCheckpoint IN
  /\ locals # FreshLocals =>
       /\ readable
       /\ opts.resume
       /\ SameParameters(checkpointFile.options, opts)
       /\ TakenFromCheckpoint(locals, checkpointFile)
  /\ (readable /\ opts.resume /\ checkpointFile.options.lanes = opts.lanes
        /\ SameParameters(checkpointFile.options, opts))
       => TakenFromCheckpoint(locals, checkpointFile)

ResumeDecisions ==
  \A every \in 1..MaxCheckpointEvery, variant \in 1..8 :
    ResumeDecision(RequestedOption(every, variant))

C16_MismatchStartsFresh ==
  /\ []ResumeDecisions
  /\ [][runs' = runs + 1 =>
          \E locals \in {ResumedLocals(checkpointFile, jobOptions')} :
          /\ ResumeDecision(jobOptions')
          /\ CurrentLocals' =
               [locals EXCEPT !.puuids = IF @ = <<>> THEN Slice(LeaguePuuids, jobOptions'.maxPlayers)
                                         ELSE @]
          /\ jobPc' = locals.phase
          /\ (resumedFrom' # NoCheckpoint) = (locals # FreshLocals)]_vars

\* A run has started over a checkpoint of the matches phase with buckets
\* whose match cap differs from the requested one, resuming being on: it
\* stands at the start of the discovery phase with nothing taken over.
C16_Witness ==
  /\ runs = 2
  /\ jobPc = "match_ids"
  /\ jobOptions.resume
  /\ checkpointFile # NoCheckpoint /\ checkpointFile # TornCheckpoint
  /\ checkpointFile.phase = "matches"
  /\ checkpointFile.buckets # <<>>
  /\ checkpointFile.nextMatchIndex > 0
  /\ checkpointFile.options.maxUniqueMatches # jobOptions.maxUniqueMatches
  /\ checkpointFile.options.patch = jobOptions.patch
  /\ resumedFrom = NoCheckpoint
  /\ buckets = <<>> /\ nextPlayerIndex = 0 /\ nextMatchIndex = 0 /\ matchesProcessed = 0
  /\ uniqueMatchIds = <<>> /\ allMatchIds = <<>>
  /\ phase = "match_ids"

\* ------------------------------------------------------------------------
\* C17  Completion.  As stated: a run that ends successfully has deleted
\* the checkpoint; the checkpoint is deleted only by the step that ends a
\* run whose matches are all processed and whose flush succeeded; and a run
\* that ends with an error leaves the checkpoint file as it was.
\* ------------------------------------------------------------------------
DeletedOnlyAfterFlush ==
  [][(checkpointFile # NoCheckpoint /\ checkpointFile' = NoCheckpoint)
       => /\ jobPc = "flush" /\ jobPc' = "stopped" /\ jobExit' = "done"
          /\ flushers[JobFlusher].pc = "idle" /\ flushers[JobFlusher].outcome = "ok"
          /\ phase = "matches"
          /\ nextMatchIndex >= Len(uniqueMatchIds)
          /\ \A i \in DOMAIN buckets :
               \E r \in table : ConflictKey(r) = buckets[i][1]]_vars

ErrorLeavesCheckpoint ==
  [][(jobPc # "stopped" /\ jobExit' = "error") => checkpointFile' = checkpointFile]_vars

NextOccurrence(d, t) ==
  /\ d \in 1..DayTicks
  /\ (t + d) % DayTicks = clampedHour * TicksPerHour

\* C18: every time a run of the nightly job ends, whether precomputeAll
\* resolved or threw, the callback arms one more timer, for the next
\* occurrence of the configured hour, and after a finished run a further
\* run eventually starts.
C18_RearmsAfterEveryRun ==
  /\ [][nightlyJobs' < nightlyJobs =>
          /\ lastNightly' \in {"completed", "failed"}
          /\ Len(timers') = Len(timers) + 1
          /\ NextOccurrence(timers'[Len(timers')], now)]_vars
  /\ ((nightlyJobs = 0 /\ lastNightly # "none") ~> (nightlyJobs > 0))

\* A run that threw has ended and the run after it has started.
C18_Witness == lastNightly = "failed" /\ nightlyJobs > 0 /\ timers = <<>>

\* The scheduler chain alone: one pending timer or one running nightly job.
OneSchedulerChain == Len(timers) + nightlyJobs <= 1

\* C19: at most one timer is pending or one nightly job is running at any
\* time, and no two bulk jobs (nightly or admin-triggered) run at once.
C19_OneChainOneJob ==
  /\ OneSchedulerChain
  /\ nightlyJobs + adminJobs <= 1
\* ------------------------------------------------------------------------
\* The request queue of the API client
\* ------------------------------------------------------------------------
\* The calls whose fetch has been handed to the network and has not settled.
InFlight == {c \in CallIds : calls[c].pc = "fetching"}

EnqueueAnswered == lastEnqueue' # lastEnqueue

QueueIsFull == Len(queue) >= options.maxQueueSize

\* C21 as stated: the waiting queue never holds more than maxQueueSize
\* items, an enqueue made while it holds maxQueueSize items is rejected with
\* reason "queue_full", and with the feature disabled every enqueue is
\* rejected with "disabled".
C21_FullQueueRejectsQueueFull ==
  /\ [](Len(queue) <= options.maxQueueSize)
  /\ [][(EnqueueAnswered /\ options.enabled /\ QueueIsFull) =>
          (~lastEnqueue'.queued /\ lastEnqueue'.reason = "queue_full")]_vars
  /\ [][(EnqueueAnswered /\ ~options.enabled) =>
          (~lastEnqueue'.queued /\ lastEnqueue'.reason = "disabled")]_vars

\* C21 amended: an enqueue made while the queue holds maxQueueSize items is
\* rejected; its reason is "queue_full" exactly when the pair passes the
\* cooldown test and is neither in process nor waiting, which enqueue tests
\* first ("cooldown", "already_queued"); the queue never exceeds
\* maxQueueSize; disabled rejects everything with "disabled".
C21_FullQueueRejects ==
  /\ [](Len(queue) <= options.maxQueueSize)
  /\ [][(EnqueueAnswered /\ options.enabled /\ QueueIsFull) =>
          /\ ~lastEnqueue'.queued
          /\ lastEnqueue'.reason \in {"cooldown", "already_queued", "queue_full"}
          /\ lastEnqueue'.reason = "queue_full" <=>
               /\ canAttempt(lastEnqueue'.key)
               /\ currentKey # lastEnqueue'.key
               /\ lastEnqueue'.key \notin queuedKeys]_vars
  /\ [][(EnqueueAnswered /\ ~options.enabled) =>
          (~lastEnqueue'.queued /\ lastEnqueue'.reason = "disabled")]_vars

\* An enqueue has been turned away by a full queue.
C21_Witness ==
  /\ lastEnqueue.reason = "queue_full"
  /\ Len(queue) = options.maxQueueSize
\* ------------------------------------------------------------------------
\* The coaching request and the live lookup
\* ------------------------------------------------------------------------
\* The longest a request can wait: one timeout per await of the handler.
CoachDeadline == LiveTimeoutMs + ExternalTimeoutMs + GeminiTimeoutMs

\* C22: a coaching request whose live lookup failed, was rate-limited or
\* timed out is answered with status 200, without statistics of the live
\* lookup, with the warning of the failure among its warnings; no request
\* waits longer than the sum of the timeouts, and every request that waits
\* for the live lookup is answered.
C22_LiveReadsFailFast ==
  /\ [](coachRequest.elapsed <= CoachDeadline)
  /\ [](coachRequest.pc = "live" => coachRequest.elapsed <= LiveTimeoutMs)
  /\ []((coachRequest.pc = "answered"
          /\ coachRequest.liveOutcome \in {"rejected", "timed_out"}) =>
          /\ coachRequest.status = 200
          /\ TotalGames(coachRequest.riotGames) = 0
          /\ coachRequest.liveStatsWarning # ""
          /\ \E k \in DOMAIN coachRequest.warnings :
                coachRequest.warnings[k] = coachRequest.liveStatsWarning)
  /\ ((coachRequest.pc = "live") ~> (coachRequest.pc = "answered"))

\* The partner lookup of a bot-lane request never answered: the request
\* has been answered after the timeout, with the warning.
C22_Witness ==
  /\ coachRequest.pc = "answered"
  /\ coachRequest.lane = "bot"
  /\ coachRequest.liveOutcome = "timed_out"
  /\ coachRequest.got[1] > 0
  /\ coachRequest.elapsed >= LiveTimeoutMs

\* ------------------------------------------------------------------------
\* Failures of a request other than 429
\* ------------------------------------------------------------------------
\* C23: a call fails with a network error or an HTTP error only when its
\* retries are used up: the fetch that ends the call is attempt maxRetries.
C23_FailsOnlyAfterRetries ==
  [][\A c \in CallIds :
       (calls[c].pc = "fetching" /\ calls'[c].pc = "idle"
        /\ calls'[c].result \in {"network_error", "http_error"})
       => calls[c].attempt = MaxRetries]_vars

\* The responses with a 4xx/5xx status other than 429.
PermanentErrors == {response \in Responses : response.status \notin {0, 200, 429}}

\* C24: when the fetch of a call is answered with a 4xx/5xx status other
\* than 429, the call ends at once with the HTTP error, it is not put back
\* into the request queue nor put to sleep for a retry, and the cooldown is
\* left as it was.
C24_PermanentErrorFailsAtOnce ==
  [][\A c \in CallIds, response \in PermanentErrors :
       Respond(c, response) =>
         /\ calls'[c].pc = "idle"
         /\ calls'[c].result = "http_error"
         /\ \A k \in DOMAIN requestQueue' : requestQueue'[k] # c
         /\ cooldownUntilMs' = cooldownUntilMs
         /\ fetchLog' = fetchLog]_vars

\* A call has ended with an HTTP error after a single fetch, outside any
\* cooldown.
C24_Witness ==
  \E c \in CallIds :
    /\ calls[c].pc = "idle"
    /\ calls[c].result = "http_error"
    /\ cooldownUntilMs = 0
    /\ \E k \in DOMAIN fetchLog : fetchLog[k].call = c /\ fetchLog[k].attempt = 0

\* ------------------------------------------------------------------------
\* Cooldown of a pair after an attempt
\* ------------------------------------------------------------------------
\* C25: an enqueue for a pair is accepted only when no attempt for the pair
\* has ended yet or a full cooldown has passed since its last attempt ended,
\* whatever the outcome of that attempt was.
C25_CooldownFromAttemptEnd ==
  [][\A key \in BackfillKeys :
       (AcceptedEnqueueOf(key) /\ attemptEndedAt[key] # 0)
       => now - attemptEndedAt[key] >= options.cooldownMs]_vars

\* ------------------------------------------------------------------------
\* Snapshots as a progress cache
\* ------------------------------------------------------------------------
\* C26: getCollectionStatus answers null for a pair exactly while no
\* enqueue for the pair has been accepted, and a pair that has a snapshot
\* has one in every later state.
C26_SnapshotsNeverDeleted ==
  /\ [](\A key \in BackfillKeys :
          getCollectionStatus(key) = NoSnapshot <=>
            (\A k \in DOMAIN acceptedOrder : acceptedOrder[k] # key))
  /\ [][\A key \in BackfillKeys :
          getCollectionStatus(key) # NoSnapshot => getCollectionStatus(key)' # NoSnapshot]_vars

\* A pair that has been collected once and accepted again still answers
\* with a snapshot, which keeps the games of the first collection.
C26_Witness ==
  \E key \in BackfillKeys :
    /\ Cardinality({k \in DOMAIN acceptedOrder : acceptedOrder[k] = key}) >= 2
    /\ attemptEndedAt[key] # 0
    /\ getCollectionStatus(key) # NoSnapshot
    /\ getCollectionStatus(key).state \in {"queued", "processing"}

\* ------------------------------------------------------------------------
\* Cadence of the checkpoints
\* ------------------------------------------------------------------------
\* The position in phase ph that the file on disk holds; the start of the
\* phase when the file is absent, torn or of another phase.
CheckpointedIndex(ph) ==
  IF checkpointFile.version = 1 /\ checkpointFile.phase = ph
    THEN IF ph = "match_ids" THEN checkpointFile.nextPlayerIndex
         ELSE checkpointFile.nextMatchIndex
    ELSE 0

\* C27: while a run is in the discovery loop or in the processing loop, the
\* units it has handled in that phase (players; match ids, accepted or
\* skipped) are less than checkpointEvery ahead of the checkpoint on disk.
C27_CheckpointNeverLagsByK ==
  /\ jobPc = "match_ids" =>
       nextPlayerIndex - CheckpointedIndex("match_ids") < jobOptions.checkpointEvery
  /\ jobPc = "matches" =>
       nextMatchIndex - CheckpointedIndex("matches") < jobOptions.checkpointEvery

\* ------------------------------------------------------------------------
\* The work list of the processing phase
\* ------------------------------------------------------------------------
NoDuplicates(ids) == \A i, j \in DOMAIN ids : ids[i] = ids[j] => i = j

\* C28: in the processing phase and in the flush after it, the work list
\* holds distinct match ids, no more than maxUniqueMatches of them, and the
\* buckets are those of handling each match id of the list up to the
\* current position exactly once, also in a run that took over a checkpoint.
C28_DistinctCappedOnce ==
  jobPc \in {"matches", "flush"} =>
    /\ NoDuplicates(uniqueMatchIds)
    /\ Len(uniqueMatchIds) <= jobOptions.maxUniqueMatches
    /\ buckets = FoldMatches(<<>>, SubSeq(uniqueMatchIds, 1, nextMatchIndex), 1)

\* A run that took over a checkpoint of the processing phase has handled
\* its whole list; the players' lists held a match id more than once.
C28_Witness ==
  /\ jobPc = "flush"
  /\ resumedFrom # NoCheckpoint
  /\ resumedFrom.phase = "matches"
  /\ resumedFrom.nextMatchIndex > 0
  /\ ~NoDuplicates(allMatchIds)
  /\ nextMatchIndex = Len(uniqueMatchIds)
  /\ buckets # <<>>

\* ------------------------------------------------------------------------
\* Claims about the collection a backfill item runs
\* ------------------------------------------------------------------------

\* C29: each accepted backfill item runs a live collection for its pair: also
\* when the store already holds a row for the pair that is stale or has fewer
\* games than the item's target, processing the item fetches matches from the
\* external API.
C29_ItemCollectsLive ==
  [][\A key \in BackfillKeys, live \in LiveCollections :
       (/\ GetMatchupStats(key, live)
        /\ \E r \in SelectByKey(table, key, now) :
             \/ StaleCase(r, now)
             \/ GamesOf(RepositoryGet(backend, table, key, now)) < snapshots[key].targetGames)
       => statsService'.last.source = "live"]_vars

\* ------------------------------------------------------------------------
\* Claims about the lane loop
\* ------------------------------------------------------------------------

\* The two champion names of a bucket key are present and differ.
DistinctPair(key) == key[3] # "" /\ key[4] # "" /\ key[3] # key[4]

\* The lane has exactly two participants, both with a champion name, and the
\* names the loop compares differ.
PairingIsValid(match, lane) ==
  LET lanePlayers == LanePlayers(match, lane) IN
  /\ Len(lanePlayers) = 2
  /\ \A i \in 1..2 : normalizeChampionName(lanePlayers[i].championName) # ""
  /\ normalizeChampionName(lanePlayers[1].championName)
       # normalizeChampionName(lanePlayers[2].championName)

C31_AcceptedItemsFinish ==
  /\ [](Len(queue) > 0 => (processing /\ currentKey # NoKey /\ currentKey \in inFlight))
  /\ \A key \in BackfillKeys :
       (snapshots[key].state = "queued") ~> (snapshots[key].state = "processing")
  /\ \A key \in BackfillKeys :
       (snapshots[key].state = "processing")
         ~> (snapshots[key].state \in {"complete", "partial", "error"})

\* A pair waits in the queue behind the pair in process, accepted while the
\* worker was awaiting its collection.
C31_Witness ==
  /\ Len(queue) > 0
  /\ processing
  /\ \E key \in BackfillKeys : snapshots[key].state = "queued"
  /\ \E key \in BackfillKeys :
       snapshots[key].state \in {"complete", "partial", "error"} /\ attemptEndedAt[key] > 0

\* The keys of the items waiting in the queue.
WaitingKeys == { keyOf(queue[i]) : i \in DOMAIN queue }

\* C32: in every reachable state queuedKeys is the set of the keys of the
\* items waiting in the queue, the queue holds no two items of one key, and
\* the key being processed is not in the queue.
C32_QueueMatchesQueuedKeys ==
  /\ queuedKeys = WaitingKeys
  /\ \A i, j \in DOMAIN queue : keyOf(queue[i]) = keyOf(queue[j]) => i = j
  /\ currentKey \notin WaitingKeys

\* A pair that was processed before has been accepted again and waits behind
\* the pair in process.
C32_Witness ==
  /\ Len(queue) >= 1
  /\ currentKey # NoKey
  /\ Len(startedOrder) >= 2
  /\ \E i \in DOMAIN queue : attemptEndedAt[keyOf(queue[i])] > 0

\* C33: a rejected enqueue changes nothing: when enqueue returns
\* queued: false, for any reason, the queue, queuedKeys, the last-attempt
\* times and all snapshots are as before, and no worker is started.
C33_RejectedEnqueueChangesNothing ==
  [][\A input \in BackfillRequests :
       (Enqueue(input) /\ ~lastEnqueue'.queued)
       => /\ lastEnqueue'.reason \in {"disabled", "cooldown", "already_queued", "queue_full"}
          /\ UNCHANGED <<queue, queuedKeys, lastAttemptAt, snapshots>>
          /\ UNCHANGED <<processing, currentKey, inFlight, startedOrder>>]_vars

\* An enqueue has been turned away by a full queue while the worker was
\* busy; the items that waited still wait.
C33_Witness ==
  /\ ~lastEnqueue.queued
  /\ lastEnqueue.reason = "queue_full"
  /\ Len(queue) >= options.maxQueueSize
  /\ processing
  /\ lastEnqueue.key \notin queuedKeys
  /\ snapshots[lastEnqueue.key] = NoSnapshot

\* ------------------------------------------------------------------------
\* Claims about the two sides of a pairing
\* ------------------------------------------------------------------------

\* The bucket key of the same pairing seen from the other side.
MirrorKey(key) == <<key[1], key[2], key[4], key[3]>>

MirrorBuckets(map) ==
  \A key \in MapKeys(map) :
    LET mine == BucketOf(map, key)
        theirs == BucketOf(map, MirrorKey(key)) IN
    /\ MirrorKey(key) \in MapKeys(map)
    /\ mine.games = theirs.games
    /\ mine.wins + theirs.wins <= mine.games
    /\ mine.totalGoldDiff15 = 0 - theirs.totalGoldDiff15
    /\ mine.pre6Kills = theirs.pre6Deaths

\* What precomputeAll's handlers make of the given matches, taken in order.
RECURSIVE PrecomputeFold(_, _, _)
PrecomputeFold(map, ids, i) ==
  IF i > Len(ids) THEN map
  ELSE PrecomputeFold(PrecomputeHandler(map, matchData[ids[i]]), ids, i + 1)

\* C34: after any number of processed matches, for every lane and champions
\* A, B the buckets (lane, A, B) and (lane, B, A) both exist or are both
\* absent, have equal games, wins summing to at most games, gold
\* differential sums that are negations of each other, and the early kills
\* of one equal to the early deaths of the other; in the crawl job and in
\* precomputeAll over the same matches.
C34_MirrorBuckets ==
  /\ MirrorBuckets(buckets)
  /\ MirrorBuckets(PrecomputeFold(<<>>, SubSeq(uniqueMatchIds, 1, nextMatchIndex), 1))

\* (top, A, B) has been aggregated more than once, with wins on both sides,
\* early kills, and gold differentials that do not cancel.
C34_Witness ==
  /\ BucketOf(buckets, BucketKey("top", "A", "B")).games >= 2
  /\ BucketOf(buckets, BucketKey("top", "A", "B")).wins >= 1
  /\ BucketOf(buckets, BucketKey("top", "B", "A")).wins >= 1
  /\ BucketOf(buckets, BucketKey("top", "A", "B")).totalGoldDiff15 # 0
  /\ BucketOf(buckets, BucketKey("top", "A", "B")).pre6Kills
       # BucketOf(buckets, BucketKey("top", "A", "B")).pre6Deaths
  /\ nextMatchIndex = Len(uniqueMatchIds)

\* ------------------------------------------------------------------------
\* Claims about writers sharing the embedded store's connection
\* ------------------------------------------------------------------------

\* C35: on the SQLite backend a row written by an upsert call that has
\* returned stays in the store when an upsertMany call running at the same
\* time on the shared connection fails and rolls back: the rollback of one
\* caller does not undo the completed write of another.
C35_RollbackKeepsCompletedUpserts ==
  [][\A f \in Flushers :
       (backend = "sqlite" /\ UpsertManyFails(f))
       => \A key \in StoreKeys :
            lastUpsert[key] # NoStats
              => RepositoryGet(backend, table', key, now) = lastUpsert[key]]_vars

\* ------------------------------------------------------------------------
\* Claims about the client's cooldown deadline
\* ------------------------------------------------------------------------

\* C36: the cooldown deadline never moves earlier: over any sequence of 429
\* responses, with any retry-after values and from concurrent requests,
\* cooldownUntilMs is non-decreasing, and after each 429 it lies at least
\* max(advertised retry delay, configured floor) after the time of that
\* response.
C36_CooldownNeverMovesEarlier ==
  [][/\ cooldownUntilMs' >= cooldownUntilMs
     /\ \A c \in CallIds, response \in Responses :
          (Respond(c, response) /\ response.status = 429)
          => cooldownUntilMs' >= now + Max(response.retryAfterMs, RateLimitCooldownMs)]_vars

\* Two fetches have been answered and the deadline stands further away than
\* the floor: a 429 that advertised a longer delay set it.
C36_Witness ==
  /\ Len(fetchLog) >= 2
  /\ cooldownUntilMs > now + RateLimitCooldownMs
  /\ \E c \in CallIds : calls[c].pc = "sleeping"
  /\ \E c \in CallIds : calls[c].result = "http_error"

\* ------------------------------------------------------------------------
\* Claims about the worker pool of the precompute
\* ------------------------------------------------------------------------

\* The workers whose handler is awaited.
Awaiting == { w \in WorkerIds : pool.workers[w].pc = "awaiting" }

\* The entries of a Map, whatever their insertion order.
EntrySet(map) == { map[i] : i \in DOMAIN map }

\* Two bucket maps hold the same counters under the same keys.
SameCounters(a, b) ==
  /\ MapKeys(a) = MapKeys(b)
  /\ \A key \in MapKeys(a) :
       LET x == BucketOf(a, key)
           y == BucketOf(b, key) IN
       /\ x.games = y.games /\ x.wins = y.wins
       /\ x.totalGoldDiff15 = y.totalGoldDiff15
       /\ x.pre6Kills = y.pre6Kills /\ x.pre6Deaths = y.pre6Deaths
       /\ EntrySet(x.runes) = EntrySet(y.runes)
       /\ EntrySet(x.items) = EntrySet(y.items)

\* Every item handed out went to one worker once, in the order of the list;
\* when no handler is awaited any more all items have been handed out and
\* the buckets hold the counters of a sequential run.
HandedOnceAndSummed ==
  /\ pool.handed = SubSeq(pool.items, 1, pool.index)
  /\ \A w, v \in Awaiting : pool.workers[w].item = pool.workers[v].item => w = v
  /\ \A w \in Awaiting : pool.workers[w].item <= pool.index
  /\ (pool.started /\ Awaiting = {})
       => /\ pool.handed = pool.items
          /\ SameCounters(pool.buckets, PrecomputeFold(<<>>, pool.items, 1))

\* C37 as stated: with concurrency c at most c handlers are in flight at a
\* time, every item is handed to exactly one worker exactly once, and the
\* final bucket counters are those of a sequential run for every
\* interleaving of the workers.
C37_AtMostConcurrencyInFlight ==
  /\ pool.started => Cardinality(Awaiting) <= pool.concurrency
  /\ HandedOnceAndSummed

\* C37, amended: the bound on the handlers in flight is max(1, c); the rest
\* as stated.
C37_BoundedPool ==
  /\ pool.started => Cardinality(Awaiting) <= Max(1, pool.concurrency)
  /\ HandedOnceAndSummed

\* A pool of two workers has finished a list longer than the pool, the
\* later item settling first, with aggregated matches among them.
C37_Witness ==
  /\ pool.started
  /\ Awaiting = {}
  /\ pool.concurrency = 2
  /\ Len(pool.items) > 2
  /\ pool.matchesProcessed >= 2
  /\ Len(pool.buckets) >= 2
  /\ pool.buckets # PrecomputeFold(<<>>, pool.items, 1)

\* ------------------------------------------------------------------------
\* Claims about the live collection against the bulk aggregation
\* ------------------------------------------------------------------------

\* C38: over the same accepted matches, the record the backfill collection
\* computes for (lane, A, B) has the games, wins, gold differential sum,
\* early kills and early deaths of the bucket (lane, A, B) of the bulk
\* aggregation.
C38_CollectorAgreesWithAggregator ==
  (pool.started /\ Awaiting = {})
    => \A lane \in LaneSet, a, b \in ChampionNames :
         a # b =>
           LET live == CollectMatches(EmptyBucket, pool.items, 1, lane, a, b)
               bucket == BucketOf(pool.buckets, BucketKey(lane, a, b)) IN
           /\ live.games = bucket.games
           /\ live.wins = bucket.wins
           /\ live.totalGoldDiff15 = bucket.totalGoldDiff15
           /\ live.pre6Kills = bucket.pre6Kills
           /\ live.pre6Deaths = bucket.pre6Deaths

\* ---------------------------------------------------------------------
\* C39  The progress of the bulk job never goes back.  Within a run the
\* phase only moves from "match_ids" to "matches" and nextPlayerIndex and
\* nextMatchIndex never decrease; a run that takes over a checkpoint starts
\* exactly at the progress the file records; every checkpoint written
\* records the progress the run has reached, and in a run that took over a
\* checkpoint it is never behind the file it replaces.  A run that took
\* over a checkpoint of the processing phase never stands in the discovery
\* loop (it asks for no player's match ids) and keeps the list of unique
\* match ids of that checkpoint.
PhaseRank(ph) == IF ph = "match_ids" THEN 0 ELSE 1

NotBehind(earlier, later) ==
  /\ PhaseRank(earlier.phase) <= PhaseRank(later.phase)
  /\ earlier.nextPlayerIndex <= later.nextPlayerIndex
  /\ earlier.nextMatchIndex <= later.nextMatchIndex

SameProgress(a, b) == NotBehind(a, b) /\ NotBehind(b, a)

TookOver == jobPc # "stopped" /\ resumedFrom # NoCheckpoint

C39_ProgressNeverRegresses ==
  [][LET before == CurrentLocals
         after == [phase |-> phase', nextPlayerIndex |-> nextPlayerIndex',
                   nextMatchIndex |-> nextMatchIndex'] IN
     /\ (jobPc # "stopped" /\ jobPc' # "stopped")
          => /\ NotBehind(before, after)
             /\ phase = "matches" => uniqueMatchIds' = uniqueMatchIds
     /\ (jobPc = "stopped" /\ jobPc' # "stopped" /\ resumedFrom' # NoCheckpoint)
          => /\ resumedFrom' = checkpointFile
             /\ SameProgress(checkpointFile, after)
             /\ uniqueMatchIds' = checkpointFile.uniqueMatchIds
     /\ (checkpointFile' # checkpointFile /\ checkpointFile'.version = 1)
          => /\ SameProgress(checkpointFile', after)
             /\ (TookOver /\ checkpointFile.version = 1)
                  => NotBehind(checkpointFile, checkpointFile')
     /\ (TookOver /\ resumedFrom.phase = "matches")
          => /\ jobPc # "match_ids"
             /\ uniqueMatchIds = resumedFrom.uniqueMatchIds
    ]_vars

\* A run that took over a checkpoint of the processing phase with matches
\* already handled has written a later checkpoint.
C39_Witness ==
  /\ TookOver
  /\ jobPc = "matches"
  /\ resumedFrom.phase = "matches"
  /\ resumedFrom.nextMatchIndex >= 1
  /\ checkpointFile.version = 1
  /\ checkpointFile.nextMatchIndex > resumedFrom.nextMatchIndex

\* ---------------------------------------------------------------------
\* The wait computed at the current time of day for the clamped hour is
\* positive, at most one day, and ends at the next instant of that hour.
WaitEndsAtNextHour == NextOccurrence(msUntilNextRun(clampedHour, now), now)

\* C40 as stated: at every time of day and for every configured hour the
\* computed wait is more than 0, at most 24 hours and ends exactly at the
\* next instant whose hour is the clamped hour, and the nightly job is
\* started at most once in a UTC day.
C40_WaitEndsAtHourOncePerDay ==
  /\ WaitEndsAtNextHour
  /\ utcDay.starts <= 1

\* C40: at every time of day and for every configured hour the computed
\* wait is more than 0, at most 24 hours and ends exactly at the next
\* instant whose hour is the clamped hour; the nightly job is started at
\* most once in a UTC day in which every callback that started belonged to
\* a timer due on that day, and at most twice in a day in which a callback
\* ran that was due on an earlier day.
C40_WaitEndsAtHour ==
  /\ WaitEndsAtNextHour
  /\ utcDay.starts <= (IF utcDay.late THEN 2 ELSE 1)

\* A run has ended, its re-armed timer came due on a later day and its
\* callback has started the one run of that day.
C40_Witness ==
  /\ lastNightly # "none"
  /\ nightlyJobs = 1
  /\ utcDay.starts = 1
  /\ ~utcDay.late
====
